---- MODULE Spec2Model ----
(***************************************************************************)
(* Verification model of adonis-open-swagger (DreamsHive/open-swagger).    *)
(*                                                                         *)
(* Three parts, each with its own specification:                           *)
(*   SpecRegistry : the decorator metadata registry (src/decorators.ts)    *)
(*   SpecRoutes   : RouteParser.generateSpec (src/route_parser.ts)         *)
(*   SpecSchema   : the schema normalizer (src/schema_utils.ts,            *)
(*                  src/file_helpers.ts)                                   *)
(*                                                                         *)
(* JavaScript values are represented as follows.  An object is a function  *)
(* from its own enumerable keys to values; `undefined` as a property value *)
(* is the string "undefined" where the property holds strings, and a       *)
(* missing property is a key outside the DOMAIN.  A Symbol-keyed property  *)
(* is a key listed in SymbolKeys: Object.keys / Object.entries skip those  *)
(* keys, object spread copies them.                                        *)
(***************************************************************************)
EXTENDS Integers, Sequences, FiniteSets, TLC

VARIABLES
    SWAGGER_METADATA,   \* decorators.ts: Map<string, SwaggerMetadata>
    apps,               \* number of decorator applications so far
    lastApp,            \* the latest decorator application (target, member, fields named)
    respLog,            \* per registry key: the SwaggerResponse applications, in order
    paramLog,           \* per registry key: the parameter decorator applications, in order
    decorated,          \* the (type, member) pairs a decorator was applied to
    config,             \* RouteParser.config.routes
    router,             \* what app.container.make('router') gives
    routes,             \* generateSpec: const routes = this.extractRoutes(router)
    filteredRoutes,     \* generateSpec: const filteredRoutes
    routeIdx,           \* generateSpec: position of the for loop over filteredRoutes
    paths,              \* generateSpec: const paths
    imported,           \* positions in filteredRoutes whose import function was invoked
    pc,                 \* generateSpec: control position
    declared,           \* the schema the application declared
    validator,          \* config.validator
    lib,                \* what importing the validator library gives
    usage,              \* where the schema is used: requestBody, response, parameter
    bodyOptions,        \* the options @SwaggerRequestBody was given for the schema
    converted,          \* what the call on the schema returned
    spc,                \* schema conversion: control position
    service,            \* OpenSwaggerService: this.config without its routes
    spec,               \* OpenSwaggerService.generateSpec: let spec
    generated,          \* generateSpec: spec as it was before the custom overlay
    svc,                \* OpenSwaggerService.generateSpec: control position
    basicAuth,          \* SwaggerMiddleware: this.config.basicAuth
    request,            \* SwaggerMiddleware.handle: ctx.request
    response,           \* SwaggerMiddleware.handle: ctx.response
    nextCalled,         \* SwaggerMiddleware.handle: whether next() was called
    mw,                 \* SwaggerMiddleware.handle: control position
    globalValidator,    \* decorators.ts: let globalValidator
    instances,          \* the OpenSwaggerService objects constructed so far
    pass                \* RouteParser.generateSpec calls: locals and position

regVars == <<SWAGGER_METADATA, apps, lastApp, respLog, paramLog, decorated>>

genVars == <<config, router, routes, filteredRoutes, routeIdx, paths, imported, pc>>

schVars == <<declared, validator, lib, usage, bodyOptions, converted, spc>>

svcVars == <<service, spec, generated, svc>>

mwVars == <<basicAuth, request, response, nextCalled, mw>>

passVars == <<globalValidator, instances, pass>>

vars == <<regVars, genVars, schVars, svcVars, mwVars, passVars>>

-----------------------------------------------------------------------------
(* Bounds and input domains                                                *)

MaxApps == 2

\* Controller classes.  T1 and T2 are two different classes that carry the
\* same class name (e.g. app/controllers/users_controller.ts and
\* app/controllers/admin/users_controller.ts both export `UsersController`).
Types == {"T1", "T2", "T3"}

ClassName == [t \in Types |->
    IF t = "T3" THEN "PostsController" ELSE "UsersController"]

Members == {"index", "show"}

\* The decorated members of the modelled application.
Targets == {<<"T1", "index">>, <<"T2", "index">>, <<"T3", "index">>, <<"T1", "show">>}

Statuses == {200, 400}

Descriptions == {"d1", "d2"}

\* JS `undefined`
Undefined == [undefined |-> TRUE]

EmptyObject == <<>>

-----------------------------------------------------------------------------
(* decorators.ts                                                           *)

\* Symbol.for('open-swagger:raw-metadata'), written as a record field
RAW_METADATA_MARKER == "RAW_METADATA_MARKER"

getMetadataKey(target, propertyKey) ==
    ClassName[target] \o "." \o propertyKey

getSwaggerMetadata(reg, target, propertyKey) ==
    LET key == getMetadataKey(target, propertyKey)
    IN  IF key \in DOMAIN reg THEN reg[key] ELSE Undefined

\* { ...existing, ...metadata }
Spread(existing, metadata) ==
    [f \in (DOMAIN existing) \cup (DOMAIN metadata) |->
        IF f \in DOMAIN metadata THEN metadata[f] ELSE existing[f]]

MapSet(map, key, value) ==
    [k \in (DOMAIN map) \cup {key} |-> IF k = key THEN value ELSE map[k]]

\* Variant: the new metadata replaces the stored fragment instead of being
\* spread over it.
setSwaggerMetadata_overwrite(reg, target, propertyKey, metadata) ==
    MapSet(reg, getMetadataKey(target, propertyKey), metadata)

setSwaggerMetadata(reg, target, propertyKey, metadata) ==
    LET key == getMetadataKey(target, propertyKey)
        existing == IF key \in DOMAIN reg THEN reg[key] ELSE EmptyObject
    IN  MapSet(reg, key, Spread(existing, metadata))

\* existing?.responses || {}   /   existing?.parameters || []
FieldOr(existing, field, default) ==
    IF existing # Undefined /\ field \in DOMAIN existing
    THEN existing[field] ELSE default

RawResponse(description, schema) ==
    [RAW_METADATA_MARKER |-> TRUE, description |-> description, schema |-> schema]

\* Variant: the responses map is rebuilt from scratch on every application.
SwaggerResponse_fresh(reg, target, propertyKey, status, description, schema) ==
    setSwaggerMetadata(reg, target, propertyKey,
        [responses |-> MapSet(EmptyObject, ToString(status),
                              RawResponse(description, schema))])

SwaggerResponse(reg, target, propertyKey, status, description, schema) ==
    LET existing == getSwaggerMetadata(reg, target, propertyKey)
        responses == MapSet(FieldOr(existing, "responses", EmptyObject),
                            ToString(status), RawResponse(description, schema))
    IN  setSwaggerMetadata(reg, target, propertyKey, [responses |-> responses])

\* options: [kind |-> "undefined"] | [kind |-> "boolean", value |-> b]
\*        | [kind |-> "object"] with optional required / contentType
RequestBodyRequired(options) ==
    IF options.kind = "boolean" THEN options.value
    ELSE IF options.kind = "object"
         THEN ~("required" \in DOMAIN options /\ options.required = FALSE)
         ELSE TRUE

RequestBodyContentType(options) ==
    IF options.kind = "object" /\ "contentType" \in DOMAIN options
    THEN options.contentType
    ELSE "application/json"

SwaggerRequestBody(reg, target, propertyKey, description, schema, options) ==
    setSwaggerMetadata(reg, target, propertyKey,
        [requestBody |->
            [RAW_METADATA_MARKER |-> TRUE,
             description |-> description,
             schema |-> schema,
             required |-> RequestBodyRequired(options),
             contentType |-> RequestBodyContentType(options)]])

RawParameter(name, location, required, schema, description) ==
    [RAW_METADATA_MARKER |-> TRUE, name |-> name, in |-> location,
     required |-> required, schema |-> schema, description |-> description]

\* Variant: an entry with the same name and location replaces the earlier one.
PushParameter_dedupe(reg, target, propertyKey, entry) ==
    LET existing == getSwaggerMetadata(reg, target, propertyKey)
        Other(p) == ~(p.name = entry.name /\ p.in = entry.in)
        parameters == Append(SelectSeq(FieldOr(existing, "parameters", <<>>), Other),
                             entry)
    IN  setSwaggerMetadata(reg, target, propertyKey, [parameters |-> parameters])

PushParameter(reg, target, propertyKey, entry) ==
    LET existing == getSwaggerMetadata(reg, target, propertyKey)
        parameters == Append(FieldOr(existing, "parameters", <<>>), entry)
    IN  setSwaggerMetadata(reg, target, propertyKey, [parameters |-> parameters])

SwaggerParam(reg, target, propertyKey, options, schema, required) ==
    PushParameter(reg, target, propertyKey,
        RawParameter(options.name, options.location, required, schema,
                     options.description))

SwaggerHeader(reg, target, propertyKey, options, schema, required) ==
    PushParameter(reg, target, propertyKey,
        RawParameter(options.name, "header", required, schema, options.description))

SwaggerParameter(reg, target, propertyKey, name, location, schema, required, description) ==
    PushParameter(reg, target, propertyKey,
        RawParameter(name, location, required, schema, description))

SwaggerDeprecated(reg, target, propertyKey, deprecated) ==
    setSwaggerMetadata(reg, target, propertyKey, [deprecated |-> deprecated])

SwaggerSecurity(reg, target, propertyKey, security) ==
    setSwaggerMetadata(reg, target, propertyKey, [security |-> security])

Swagger(reg, target, propertyKey, options) ==
    setSwaggerMetadata(reg, target, propertyKey, options)

SwaggerInfo(reg, target, propertyKey, options) ==
    setSwaggerMetadata(reg, target, propertyKey, options)

-----------------------------------------------------------------------------
(* Decorator applications (class-definition time)                          *)

RequestBodyOptions ==
    { [kind |-> "undefined"],
      [kind |-> "object", contentType |-> "multipart/form-data"] }

SwaggerOptions ==
    { [summary |-> "Test endpoint"],
      [summary |-> "Other", tags |-> <<"Test">>, deprecated |-> TRUE] }

SwaggerInfoOptions ==
    { [tags |-> <<"Users">>],
      [summary |-> "Info", description |-> "more"] }

ParamOptions ==
    { [name |-> "id", location |-> "path", description |-> "undefined"],
      [name |-> "id", location |-> "query", description |-> "the id"] }

\* Book-keeping shared by every decorator application.
Applied(target, propertyKey, fields, newReg) ==
    /\ apps < MaxApps
    /\ apps' = apps + 1
    /\ SWAGGER_METADATA' = newReg
    /\ lastApp' = [target |-> target, member |-> propertyKey, fields |-> fields]
    /\ decorated' = decorated \cup {<<target, propertyKey>>}
    /\ UNCHANGED genVars
    /\ UNCHANGED schVars
    /\ UNCHANGED <<svcVars, passVars, mwVars>>

LogAppend(log, key, entry) ==
    MapSet(log, key, Append(IF key \in DOMAIN log THEN log[key] ELSE <<>>, entry))

ApplySwaggerResponse ==
    \E tm \in Targets, status \in Statuses, d \in Descriptions :
        /\ Applied(tm[1], tm[2], {"responses"},
                   SwaggerResponse(SWAGGER_METADATA, tm[1], tm[2], status, d, "UserSchema"))
        /\ respLog' = LogAppend(respLog, getMetadataKey(tm[1], tm[2]),
                                [status |-> status, description |-> d])
        /\ UNCHANGED paramLog

ApplySwaggerRequestBody ==
    \E tm \in Targets, o \in RequestBodyOptions :
        /\ Applied(tm[1], tm[2], {"requestBody"},
                   SwaggerRequestBody(SWAGGER_METADATA, tm[1], tm[2], "body", "UserSchema", o))
        /\ UNCHANGED <<respLog, paramLog>>

ApplySwaggerParam ==
    \E tm \in Targets, o \in ParamOptions, r \in {TRUE} :
        /\ Applied(tm[1], tm[2], {"parameters"},
                   SwaggerParam(SWAGGER_METADATA, tm[1], tm[2], o, "IdSchema", r))
        /\ paramLog' = LogAppend(paramLog, getMetadataKey(tm[1], tm[2]),
                                 [name |-> o.name, in |-> o.location, required |-> r])
        /\ UNCHANGED respLog

ApplySwaggerHeader ==
    \E tm \in Targets :
        /\ Applied(tm[1], tm[2], {"parameters"},
                   SwaggerHeader(SWAGGER_METADATA, tm[1], tm[2],
                                 [name |-> "X-Token", description |-> "undefined"],
                                 "TokenSchema", FALSE))
        /\ paramLog' = LogAppend(paramLog, getMetadataKey(tm[1], tm[2]),
                                 [name |-> "X-Token", in |-> "header", required |-> FALSE])
        /\ UNCHANGED respLog

ApplySwaggerParameter ==
    \E tm \in Targets, loc \in {"query"} :
        /\ Applied(tm[1], tm[2], {"parameters"},
                   SwaggerParameter(SWAGGER_METADATA, tm[1], tm[2], "id", loc, "IdSchema",
                                    TRUE, "undefined"))
        /\ paramLog' = LogAppend(paramLog, getMetadataKey(tm[1], tm[2]),
                                 [name |-> "id", in |-> loc, required |-> TRUE])
        /\ UNCHANGED respLog

ApplySwaggerDeprecated ==
    \E tm \in Targets, d \in BOOLEAN :
        /\ Applied(tm[1], tm[2], {"deprecated"},
                   SwaggerDeprecated(SWAGGER_METADATA, tm[1], tm[2], d))
        /\ UNCHANGED <<respLog, paramLog>>

ApplySwaggerSecurity ==
    \E tm \in Targets :
        /\ Applied(tm[1], tm[2], {"security"},
                   SwaggerSecurity(SWAGGER_METADATA, tm[1], tm[2], <<"bearerAuth">>))
        /\ UNCHANGED <<respLog, paramLog>>

ApplySwagger ==
    \E tm \in Targets, o \in SwaggerOptions :
        /\ Applied(tm[1], tm[2], DOMAIN o, Swagger(SWAGGER_METADATA, tm[1], tm[2], o))
        /\ UNCHANGED <<respLog, paramLog>>

ApplySwaggerInfo ==
    \E tm \in Targets, o \in SwaggerInfoOptions :
        /\ Applied(tm[1], tm[2], DOMAIN o, SwaggerInfo(SWAGGER_METADATA, tm[1], tm[2], o))
        /\ UNCHANGED <<respLog, paramLog>>

NoApp == [target |-> "none", member |-> "none", fields |-> {}]

SchemaIdle ==
    /\ declared = EmptyObject
    /\ validator = "none"
    /\ lib = "ok"
    /\ usage = "none"
    /\ bodyOptions = [kind |-> "undefined"]
    /\ converted = EmptyObject
    /\ spc = "idle"

ServiceIdle ==
    /\ service = EmptyObject
    /\ spec = EmptyObject
    /\ generated = EmptyObject
    /\ svc = "idle"

MiddlewareIdle ==
    /\ basicAuth = Undefined
    /\ request = EmptyObject
    /\ response = EmptyObject
    /\ nextCalled = FALSE
    /\ mw = "idle"

PassesIdle ==
    /\ globalValidator = "undefined"
    /\ instances = <<>>
    /\ pass = <<>>

GenIdle ==
    /\ config = EmptyObject
    /\ router = [available |-> FALSE]
    /\ routes = <<>>
    /\ filteredRoutes = <<>>
    /\ routeIdx = 0
    /\ paths = EmptyObject
    /\ imported = {}
    /\ pc = "idle"

InitRegistry ==
    /\ SWAGGER_METADATA = EmptyObject
    /\ apps = 0
    /\ lastApp = NoApp
    /\ respLog = EmptyObject
    /\ paramLog = EmptyObject
    /\ decorated = {}
    /\ GenIdle
    /\ SchemaIdle
    /\ ServiceIdle
    /\ MiddlewareIdle
    /\ PassesIdle

NextRegistry ==
    \/ ApplySwaggerResponse
    \/ ApplySwaggerRequestBody
    \/ ApplySwaggerParam
    \/ ApplySwaggerHeader
    \/ ApplySwaggerParameter
    \/ ApplySwaggerDeprecated
    \/ ApplySwaggerSecurity
    \/ ApplySwagger
    \/ ApplySwaggerInfo

SpecRegistry == InitRegistry /\ [][NextRegistry]_vars

-----------------------------------------------------------------------------
(* Properties of the metadata registry                                     *)

LogOf(log, key) == IF key \in DOMAIN log THEN log[key] ELSE <<>>

\* C7: a decorator application changes only the fragment fields it names:
\* every field stored before the application, in the fragment it targets or
\* in any other fragment, that the application does not name is still
\* present afterwards with the same value.
C7_UnnamedFieldsKept ==
    [][\A k \in DOMAIN SWAGGER_METADATA :
         \A f \in DOMAIN SWAGGER_METADATA[k] :
            (k # getMetadataKey(lastApp'.target, lastApp'.member)
                \/ f \notin lastApp'.fields)
            => /\ k \in DOMAIN SWAGGER_METADATA'
               /\ f \in DOMAIN SWAGGER_METADATA'[k]
               /\ SWAGGER_METADATA'[k][f] = SWAGGER_METADATA[k][f]]_vars

\* A fragment holding responses and parameters from earlier decorators, after
\* an application that named neither.
C7_Witness ==
    /\ apps >= 2
    /\ lastApp.target # "none"
    /\ lastApp.fields \cap {"responses", "parameters", "requestBody"} = {}
    /\ LET k == getMetadataKey(lastApp.target, lastApp.member)
       IN  /\ k \in DOMAIN SWAGGER_METADATA
           /\ DOMAIN SWAGGER_METADATA[k]
                 \cap {"responses", "parameters", "requestBody"} # {}

LastWithStatus(log, status) ==
    log[CHOOSE i \in 1..Len(log) :
            /\ log[i].status = status
            /\ \A j \in (i + 1)..Len(log) : log[j].status # status]

\* C8: after any sequence of SwaggerResponse applications to a member, the
\* responses map of its fragment has exactly the applied status codes (as
\* strings), all at once, and each entry is the one of the latest application
\* of that status code.  (A member is identified by its registry entry.)
C8_ResponsesAreAppliedStatuses ==
    \A t \in Types, m \in Members :
        LET frag == getSwaggerMetadata(SWAGGER_METADATA, t, m)
            log == LogOf(respLog, getMetadataKey(t, m))
        IN  IF log = <<>>
            THEN frag = Undefined \/ "responses" \notin DOMAIN frag
            ELSE /\ frag # Undefined
                 /\ "responses" \in DOMAIN frag
                 /\ DOMAIN frag.responses =
                        {ToString(log[i].status) : i \in 1..Len(log)}
                 /\ \A i \in 1..Len(log) :
                        frag.responses[ToString(log[i].status)] =
                            RawResponse(LastWithStatus(log, log[i].status).description,
                                        "UserSchema")

\* Status 200 and status 400 were applied to one member and are both present.
C8_Witness ==
    \E t \in Types, m \in Members :
        LET frag == getSwaggerMetadata(SWAGGER_METADATA, t, m)
        IN  /\ frag # Undefined
            /\ "responses" \in DOMAIN frag
            /\ DOMAIN frag.responses = {"200", "400"}
            /\ Len(LogOf(respLog, getMetadataKey(t, m))) = 2

\* C9: after n applications of the parameter-adding decorators to a member,
\* the parameters list of its fragment has exactly n entries, one per
\* application and in application order, also when name and location repeat.
C9_ParametersAppend ==
    \A t \in Types, m \in Members :
        LET frag == getSwaggerMetadata(SWAGGER_METADATA, t, m)
            log == LogOf(paramLog, getMetadataKey(t, m))
        IN  IF log = <<>>
            THEN frag = Undefined \/ "parameters" \notin DOMAIN frag
            ELSE /\ frag # Undefined
                 /\ "parameters" \in DOMAIN frag
                 /\ Len(frag.parameters) = Len(log)
                 /\ \A i \in 1..Len(log) :
                        /\ frag.parameters[i].name = log[i].name
                        /\ frag.parameters[i].in = log[i].in
                        /\ frag.parameters[i].required = log[i].required
                        /\ frag.parameters[i][RAW_METADATA_MARKER] = TRUE

\* Two applications with the same name and location gave two entries.
C9_Witness ==
    \E t \in Types, m \in Members :
        LET frag == getSwaggerMetadata(SWAGGER_METADATA, t, m)
        IN  /\ frag # Undefined
            /\ "parameters" \in DOMAIN frag
            /\ Len(frag.parameters) = 2
            /\ frag.parameters[1].name = frag.parameters[2].name
            /\ frag.parameters[1].in = frag.parameters[2].in

\* C10: metadata attached to (T1, m) is never returned by getSwaggerMetadata
\* for a different type (T2, m): a lookup for a (type, member) no decorator
\* was applied to returns nothing.
C10_NoCrossTypeMetadata ==
    \A t \in Types, m \in Members :
        getSwaggerMetadata(SWAGGER_METADATA, t, m) # Undefined
            => <<t, m>> \in decorated

-----------------------------------------------------------------------------
(* Strings.  A string the code takes apart character by character is a     *)
(* sequence of one-character strings; Join gives it as one string.         *)

RECURSIVE Join(_)
Join(chars) == IF chars = <<>> THEN "" ELSE Head(chars) \o Join(Tail(chars))

Contains(chars, c) == \E i \in 1..Len(chars) : chars[i] = c

\* str.replace(/c/g, d) for one character c
ReplaceChar(chars, c, d) ==
    [i \in 1..Len(chars) |-> IF chars[i] = c THEN d ELSE chars[i]]

\* str.split('.')
RECURSIVE Split(_, _)
Split(chars, sep) ==
    IF ~Contains(chars, sep) THEN <<chars>>
    ELSE LET i == CHOOSE k \in 1..Len(chars) :
                      chars[k] = sep /\ \A j \in 1..(k - 1) : chars[j] # sep
         IN  <<SubSeq(chars, 1, i - 1)>> \o Split(SubSeq(chars, i + 1, Len(chars)), sep)

\* str.includes(sub)
Includes(chars, sub) ==
    \E i \in 0..(Len(chars) - Len(sub)) : SubSeq(chars, i + 1, i + Len(sub)) = sub

\* String.prototype.toUpperCase / toLowerCase on the HTTP method spellings
MethodStrings == {"GET", "get", "Get", "HEAD", "head", "Head", "POST", "post", "Post"}

toUpperCase(m) ==
    CASE m \in {"GET", "get", "Get"} -> "GET"
      [] m \in {"HEAD", "head", "Head"} -> "HEAD"
      [] m \in {"POST", "post", "Post"} -> "POST"

toLowerCase(m) ==
    CASE m \in {"GET", "get", "Get"} -> "get"
      [] m \in {"HEAD", "head", "Head"} -> "head"
      [] m \in {"POST", "post", "Post"} -> "post"

-----------------------------------------------------------------------------
(* route_parser.ts                                                         *)

Null == [null |-> TRUE]

\* the marker of an exception leaving a function
Thrown == [thrown |-> TRUE]

NoImport == [defined |-> FALSE]

\* The application's modules: what importing / container-resolving a
\* controller path yields (a controller class, or nothing).
ControllerModules(path) ==
    CASE path = "#c/u" -> "T1"
      [] path = "#c/p" -> "T3"
      [] OTHER -> "none"

extractMethodNameFromReference(reference) ==
    LET parts == Split(reference, ".")
    IN  IF Len(parts) > 1 THEN Join(parts[Len(parts)]) ELSE "handle"

\* handler shapes of a router entry:
\*   [shape |-> "classTuple", class, methodName]          [AuthController, 'login']
\*   [shape |-> "importTuple", loads, class, methodName]  [() => import(..), 'login']
\*   [shape |-> "object", reference]             {reference: '#c/u.index', handle}
\*   [shape |-> "objectArray", loads, class]     {reference: [importFn], handle}
\*   [shape |-> "string", reference]             '#c/u.index'
\*   [shape |-> "unsupported"]                   a number, a one-element array, ...
extractHandlerInfo(route) ==
    LET h == route.handler
    IN  CASE h.shape = "classTuple" ->
                [handler |-> <<"A", "r", "r", "a", "y">>,
                 controllerClass |-> h.class,
                 importFunction |-> NoImport,
                 methodName |-> h.methodName]
          [] h.shape = "importTuple" ->
                [handler |-> <<"A", "r", "r", "a", "y">>,
                 controllerClass |-> "undefined",
                 importFunction |-> [defined |-> TRUE, loads |-> h.loads, class |-> h.class],
                 methodName |-> h.methodName]
          [] h.shape = "object" ->
                [handler |-> h.reference,
                 controllerClass |-> "undefined",
                 importFunction |-> NoImport,
                 methodName |-> extractMethodNameFromReference(h.reference)]
          [] h.shape = "objectArray" ->
                [handler |-> <<"A", "r", "r", "a", "y">>,
                 controllerClass |-> "undefined",
                 importFunction |-> [defined |-> TRUE, loads |-> h.loads, class |-> h.class],
                 methodName |-> "handle"]
          [] h.shape = "unsupported" ->
                [handler |-> <<"U", "n", "k", "n", "o", "w", "n">>,
                 controllerClass |-> "undefined",
                 importFunction |-> NoImport,
                 methodName |-> "undefined"]
          [] OTHER ->
                [handler |-> h.reference,
                 controllerClass |-> "undefined",
                 importFunction |-> NoImport,
                 methodName |-> "undefined"]

\* Array.isArray(route.methods) ? route.methods : [route.method || 'GET']
RouteMethods(route) ==
    IF "methods" \in DOMAIN route THEN route.methods
    ELSE IF "method" \in DOMAIN route THEN <<route.method>>
    ELSE <<"GET">>

\* the pattern of a route entry that has neither `pattern` nor `route`
UndefinedPattern == <<"undefined">>

RouteInfoOf(route, method) ==
    LET handlerInfo == extractHandlerInfo(route)
    IN  [method |-> toUpperCase(method),
         pattern |-> IF "pattern" \in DOMAIN route THEN route.pattern
                     ELSE UndefinedPattern,
         handler |-> handlerInfo.handler,
         name |-> route.name,
         importFunction |-> handlerInfo.importFunction,
         controllerClass |-> handlerInfo.controllerClass,
         methodName |-> handlerInfo.methodName]

RECURSIVE FlattenRoutes(_)
FlattenRoutes(routeData) ==
    IF routeData = <<>> THEN <<>>
    ELSE IF Head(routeData) = Null
    THEN <<>>    \* route.methods throws; the catch around the loop ends it
    ELSE LET route == Head(routeData)
             methods == RouteMethods(route)
         IN  [i \in 1..Len(methods) |-> RouteInfoOf(route, methods[i])]
                \o FlattenRoutes(Tail(routeData))

\* router.toJSON() is {root: [...]} or a bare array; anything else gives no
\* routes.  An entry that is null throws inside the loop: the routes pushed
\* before it are returned, the entries after it are never read.
extractRoutes(r) ==
    IF r.format \in {"root", "array"} THEN FlattenRoutes(r.entries) ELSE <<>>

\* A regular expression made of literal characters, '.' and '.*' , tested
\* unanchored: new RegExp(filterPattern.replace(/\*/g, '.*')).test(routePattern)
RECURSIVE RegexMatchHere(_, _)
RegexMatchHere(pat, str) ==
    IF pat = <<>> THEN TRUE
    ELSE IF Head(pat) = "*"
         THEN \E k \in 0..Len(str) :
                 RegexMatchHere(Tail(pat), SubSeq(str, k + 1, Len(str)))
         ELSE /\ str # <<>>
              /\ (Head(pat) = "." \/ Head(pat) = Head(str))
              /\ RegexMatchHere(Tail(pat), Tail(str))

\* regex.test(undefined) tests the string "undefined"
RegexSubject(routePattern) ==
    IF routePattern = UndefinedPattern
    THEN <<"u", "n", "d", "e", "f", "i", "n", "e", "d">>
    ELSE routePattern

\* undefined.includes(filterPattern) is a TypeError
matchesPatternThrows(routePattern, filterPattern) ==
    routePattern = UndefinedPattern /\ ~Contains(filterPattern, "*")

matchesPattern(routePattern, filterPattern) ==
    IF Contains(filterPattern, "*")
    THEN \E k \in 0..Len(RegexSubject(routePattern)) :
            RegexMatchHere(filterPattern,
                           SubSeq(RegexSubject(routePattern), k + 1,
                                  Len(RegexSubject(routePattern))))
    ELSE Includes(routePattern, filterPattern)

\* the loop over `patterns` throws before a pattern matched
ScanThrows(routePattern, patterns) ==
    \E i \in 1..Len(patterns) :
        /\ matchesPatternThrows(routePattern, patterns[i])
        /\ \A j \in 1..(i - 1) : ~matchesPattern(routePattern, patterns[j])

MatchesAny(routePattern, patterns) ==
    \E i \in 1..Len(patterns) : matchesPattern(routePattern, patterns[i])

\* the filter callback throws on this route
KeepRouteThrows(cfg, route) ==
    \/ "exclude" \in DOMAIN cfg /\ ScanThrows(route.pattern, cfg.exclude)
    \/ /\ ~("exclude" \in DOMAIN cfg /\ MatchesAny(route.pattern, cfg.exclude))
       /\ "include" \in DOMAIN cfg /\ ScanThrows(route.pattern, cfg.include)

\* Variant: the include patterns are consulted before the exclude patterns.
KeepRoute_includeFirst(cfg, route) ==
    IF "include" \in DOMAIN cfg
    THEN MatchesAny(route.pattern, cfg.include)
    ELSE ~("exclude" \in DOMAIN cfg /\ MatchesAny(route.pattern, cfg.exclude))

KeepRoute(cfg, route) ==
    IF "exclude" \in DOMAIN cfg /\ MatchesAny(route.pattern, cfg.exclude)
    THEN FALSE
    ELSE IF "include" \in DOMAIN cfg
         THEN MatchesAny(route.pattern, cfg.include)
         ELSE TRUE

\* Variant: the `return false` that ends the include branch is reached also
\* when no include list is configured.
filterRoutes_includeRequired(cfg, rs) ==
    LET Keep(route) == /\ KeepRoute(cfg, route)
                       /\ "include" \in DOMAIN cfg
    IN  SelectSeq(rs, Keep)

filterRoutes(cfg, rs) ==
    LET Keep(route) == KeepRoute(cfg, route)
    IN  SelectSeq(rs, Keep)

\* routes.filter(...) throws: the callback throws on one of the routes
filterRoutesThrows(cfg, rs) ==
    \E i \in 1..Len(rs) : KeepRouteThrows(cfg, rs[i])

\* pattern.replace(/:([^/]+)/g, '{$1}')
RECURSIVE convertRoutePattern(_)
convertRoutePattern(pattern) ==
    IF pattern = <<>> THEN <<>>
    ELSE IF Head(pattern) = ":" /\ Len(pattern) >= 2 /\ pattern[2] # "/"
         THEN LET rest == Tail(pattern)
                  n == CHOOSE k \in 1..Len(rest) :
                          /\ \A j \in 1..k : rest[j] # "/"
                          /\ (k = Len(rest) \/ rest[k + 1] = "/")
              IN  <<"{">> \o SubSeq(rest, 1, n) \o <<"}">>
                      \o convertRoutePattern(SubSeq(rest, n + 1, Len(rest)))
         ELSE <<Head(pattern)>> \o convertRoutePattern(Tail(pattern))

\* .replace(/_+/g, '_')
RECURSIVE CollapseUnderscores(_)
CollapseUnderscores(chars) ==
    IF Len(chars) < 2 THEN chars
    ELSE IF chars[1] = "_" /\ chars[2] = "_"
         THEN CollapseUnderscores(Tail(chars))
         ELSE <<Head(chars)>> \o CollapseUnderscores(Tail(chars))

\* .replace(/^_|_$/g, '')
TrimUnderscores(chars) ==
    LET a == IF chars # <<>> /\ Head(chars) = "_" THEN Tail(chars) ELSE chars
    IN  IF a # <<>> /\ a[Len(a)] = "_" THEN SubSeq(a, 1, Len(a) - 1) ELSE a

\* Variant: a route name is used as it is.
generateOperationId_nameVerbatim(route) ==
    IF route.name # <<>>
    THEN Join(route.name)
    ELSE LET NotStripped(c) == c \notin {"{", "}", ":"}
             p0 == IF route.pattern # <<>> /\ Head(route.pattern) = "/"
                   THEN Tail(route.pattern) ELSE route.pattern
             p1 == ReplaceChar(p0, "/", "_")
             p2 == SelectSeq(p1, NotStripped)
             path == TrimUnderscores(CollapseUnderscores(p2))
         IN  toLowerCase(route.method) \o "_"
                \o (IF path = <<>> THEN "root" ELSE Join(path))

\* Variant: the id of an unnamed route is built from the converted path and
\* keeps its braces.
generateOperationId_converted(route) ==
    IF route.name # <<>>
    THEN Join(ReplaceChar(route.name, ".", "_"))
    ELSE LET c0 == convertRoutePattern(route.pattern)
             p0 == IF c0 # <<>> /\ Head(c0) = "/" THEN Tail(c0) ELSE c0
             p1 == ReplaceChar(p0, "/", "_")
             path == TrimUnderscores(CollapseUnderscores(p1))
         IN  toLowerCase(route.method) \o "_"
                \o (IF path = <<>> THEN "root" ELSE Join(path))

generateOperationId(route) ==
    IF route.name # <<>>
    THEN Join(ReplaceChar(route.name, ".", "_"))
    ELSE LET NotStripped(c) == c \notin {"{", "}", ":"}
             p0 == IF route.pattern # <<>> /\ Head(route.pattern) = "/"
                   THEN Tail(route.pattern) ELSE route.pattern
             p1 == ReplaceChar(p0, "/", "_")
             p2 == SelectSeq(p1, NotStripped)
             path == TrimUnderscores(CollapseUnderscores(p2))
         IN  toLowerCase(route.method) \o "_"
                \o (IF path = <<>> THEN "root" ELSE Join(path))

\* typeof x.then === 'function': a promise is [then |-> TRUE, value |-> v],
\* v the value it is fulfilled with (never itself a promise)
IsThenable(x) == "then" \in DOMAIN x

\* await x
Await(x) == IF IsThenable(x) THEN x.value ELSE x

\* Variant: an entry that is not a promise is dropped to an empty object.
resolveMetadataPromises_promisesOnly(metadata) ==
    LET Settle(x) == IF IsThenable(x) THEN x.value ELSE EmptyObject
    IN  [f \in DOMAIN metadata |->
            IF f = "responses"
            THEN [status \in DOMAIN metadata.responses |->
                     Settle(metadata.responses[status])]
            ELSE IF f = "parameters"
            THEN [i \in 1..Len(metadata.parameters) |-> Settle(metadata.parameters[i])]
            ELSE IF f = "requestBody" THEN Settle(metadata.requestBody)
            ELSE metadata[f]]

\* Promises among the responses, the parameters and the request body are
\* awaited; every other entry, a raw placeholder included, is copied as it is.
resolveMetadataPromises(metadata) ==
    [f \in DOMAIN metadata |->
        IF f = "responses"
        THEN [status \in DOMAIN metadata.responses |-> Await(metadata.responses[status])]
        ELSE IF f = "parameters"
        THEN [i \in 1..Len(metadata.parameters) |-> Await(metadata.parameters[i])]
        ELSE IF f = "requestBody" THEN Await(metadata.requestBody)
        ELSE metadata[f]]

LookupMetadata(reg, class, methodName) ==
    LET metadata == getSwaggerMetadata(reg, class, methodName)
    IN  IF metadata # Undefined THEN resolveMetadataPromises(metadata) ELSE Null

\* Variant: the import function of a handler tuple is never invoked.
getCustomMetadata_noImport(reg, route) ==
    IF route.controllerClass # "undefined" /\ route.methodName \notin {"undefined", ""}
    THEN LookupMetadata(reg, route.controllerClass, route.methodName)
    ELSE IF route.importFunction.defined /\ route.methodName \notin {"undefined", ""}
    THEN Null
    ELSE LET parts == Split(route.handler, ".")
         IN  IF parts[1] = <<>> \/ Len(parts) < 2 \/ parts[2] = <<>>
             THEN Null
             ELSE LET class == ControllerModules(Join(parts[1]))
                  IN  IF class = "none" THEN Null
                      ELSE LookupMetadata(reg, class, Join(parts[2]))

\* Variant: a handler that cannot be resolved counts as documented with an
\* empty fragment.
getCustomMetadata_failOpen(reg, route) ==
    IF route.controllerClass # "undefined" /\ route.methodName \notin {"undefined", ""}
    THEN LookupMetadata(reg, route.controllerClass, route.methodName)
    ELSE IF route.importFunction.defined /\ route.methodName \notin {"undefined", ""}
    THEN IF route.importFunction.loads \in {"default", "module"}
         THEN LookupMetadata(reg, route.importFunction.class, route.methodName)
         ELSE EmptyObject
    ELSE LET parts == Split(route.handler, ".")
         IN  IF parts[1] = <<>> \/ Len(parts) < 2 \/ parts[2] = <<>>
             THEN EmptyObject
             ELSE LET class == ControllerModules(Join(parts[1]))
                  IN  IF class = "none" THEN EmptyObject
                      ELSE LookupMetadata(reg, class, Join(parts[2]))

getCustomMetadata(reg, route) ==
    IF route.controllerClass # "undefined" /\ route.methodName \notin {"undefined", ""}
    THEN LookupMetadata(reg, route.controllerClass, route.methodName)
    ELSE IF route.importFunction.defined /\ route.methodName \notin {"undefined", ""}
    THEN IF route.importFunction.loads \in {"default", "module"}
         THEN LookupMetadata(reg, route.importFunction.class, route.methodName)
         ELSE Null
    ELSE LET parts == Split(route.handler, ".")
         IN  IF parts[1] = <<>> \/ Len(parts) < 2 \/ parts[2] = <<>>
             THEN Null
             ELSE LET class == ControllerModules(Join(parts[1]))
                  IN  IF class = "none" THEN Null
                      ELSE LookupMetadata(reg, class, Join(parts[2]))

BuildOperation(route, customMetadata) ==
    LET base == [summary |-> FieldOr(customMetadata, "summary", ""),
                 description |-> FieldOr(customMetadata, "description", ""),
                 operationId |-> generateOperationId(route),
                 tags |-> FieldOr(customMetadata, "tags", <<>>),
                 parameters |-> FieldOr(customMetadata, "parameters", <<>>),
                 responses |-> FieldOr(customMetadata, "responses", EmptyObject)]
        optional == {f \in {"security", "requestBody"} : f \in DOMAIN customMetadata}
                       \cup {f \in {"deprecated"} :
                                f \in DOMAIN customMetadata /\ customMetadata[f]}
    IN  Spread(base, [f \in optional |-> customMetadata[f]])

\* Variant: a route without metadata gets a default operation.
generateOperation_stub(reg, route) ==
    LET customMetadata == getCustomMetadata(reg, route)
    IN  BuildOperation(route, IF customMetadata = Null THEN EmptyObject
                              ELSE customMetadata)

generateOperation(reg, route) ==
    LET customMetadata == getCustomMetadata(reg, route)
    IN  IF customMetadata = Null THEN Null
        ELSE BuildOperation(route, customMetadata)

\* Variant: the path item is replaced by one holding the new operation only.
AddOperation_newItem(ps, path, method, operation) ==
    MapSet(ps, path, MapSet(EmptyObject, method, operation))

\* paths[path][method] = operation
AddOperation(ps, path, method, operation) ==
    MapSet(ps, path,
           MapSet(IF path \in DOMAIN ps THEN ps[path] ELSE EmptyObject,
                  method, operation))

-----------------------------------------------------------------------------
(* RouteParser.generateSpec, one step per await point                      *)

RouterUnavailable ==
    /\ pc = "start"
    /\ ~router.available
    /\ paths' = EmptyObject
    /\ pc' = "done"
    /\ UNCHANGED <<regVars, schVars, svcVars, passVars, mwVars, config, router, routes,
                   filteredRoutes, routeIdx,
                   imported>>

\* extractRoutes and filterRoutes; when filterRoutes throws, the outer catch
\* returns {paths: {}}
RouterResolved ==
    /\ pc = "start"
    /\ router.available
    /\ routes' = extractRoutes(router)
    /\ paths' = EmptyObject
    /\ IF filterRoutesThrows(config, extractRoutes(router))
       THEN /\ pc' = "done"
            /\ UNCHANGED <<filteredRoutes, routeIdx>>
       ELSE /\ filteredRoutes' = filterRoutes(config, extractRoutes(router))
            /\ routeIdx' = 1
            /\ pc' = "loop"
    /\ UNCHANGED <<regVars, schVars, svcVars, passVars, mwVars, config, router, imported>>

\* convertRoutePattern(undefined) throws: the route's catch skips it
RouteThrows(route) == route.pattern = UndefinedPattern

\* getCustomMetadata reaches `await route.importFunction()`
InvokesImport(route) ==
    /\ ~(route.controllerClass # "undefined" /\ route.methodName \notin {"undefined", ""})
    /\ route.importFunction.defined
    /\ route.methodName \notin {"undefined", ""}

\* Variant: the resolver works on the registry's objects themselves, so that
\* looking a documented route up leaves the resolved entries in the registry.
RegistryAfterLookup_inPlace(reg, route) ==
    IF generateOperation(reg, route) = Null THEN reg
    ELSE [key \in DOMAIN reg |-> resolveMetadataPromises(reg[key])]

\* The registry after the metadata of `route` was looked up and resolved:
\* `resolved = { ...metadata }` is a copy with a responses map and a
\* parameters array of its own, and generateOperation builds a new object.
RegistryAfterLookup(reg, route) == reg

ProcessRoute ==
    /\ pc = "loop"
    /\ routeIdx <= Len(filteredRoutes)
    /\ LET route == filteredRoutes[routeIdx]
           path == Join(convertRoutePattern(route.pattern))
           method == toLowerCase(route.method)
           operation == generateOperation(SWAGGER_METADATA, route)
       IN  IF RouteThrows(route)
           THEN UNCHANGED <<SWAGGER_METADATA, paths, imported>>
           ELSE /\ paths' = IF operation # Null
                            THEN AddOperation(paths, path, method, operation)
                            ELSE paths
                /\ imported' = IF InvokesImport(route)
                               THEN imported \cup {routeIdx} ELSE imported
                /\ SWAGGER_METADATA' = RegistryAfterLookup(SWAGGER_METADATA, route)
    /\ routeIdx' = routeIdx + 1
    /\ UNCHANGED <<apps, lastApp, respLog, paramLog, decorated>>
    /\ UNCHANGED <<schVars, svcVars, passVars, mwVars, config, router, routes, filteredRoutes, pc>>

ReturnPaths ==
    /\ pc = "loop"
    /\ routeIdx > Len(filteredRoutes)
    /\ pc' = "done"
    /\ UNCHANGED <<regVars, schVars, svcVars, passVars, mwVars, config, router, routes,
                   filteredRoutes, routeIdx,
                   paths, imported>>

\* The for loop over filteredRoutes from position i on, as one value.
RECURSIVE PathsLoop(_, _, _, _)
PathsLoop(reg, rs, i, ps) ==
    IF i > Len(rs) THEN ps
    ELSE LET route == rs[i]
             operation == generateOperation(reg, route)
         IN  PathsLoop(reg, rs, i + 1,
                 IF RouteThrows(route) \/ operation = Null THEN ps
                 ELSE AddOperation(ps, Join(convertRoutePattern(route.pattern)),
                                   toLowerCase(route.method), operation))

\* RouteParser.generateSpec as one value: the `paths` of what it returns.
RouteParserGenerateSpec(reg, cfg, r) ==
    IF ~r.available THEN EmptyObject
    ELSE IF filterRoutesThrows(cfg, extractRoutes(r)) THEN EmptyObject
    ELSE PathsLoop(reg, filterRoutes(cfg, extractRoutes(r)), 1, EmptyObject)

-----------------------------------------------------------------------------
(* Inputs of a generation pass                                             *)

MaxRoutes == 2

P_users == <<"/", "u">>
P_user == <<"/", "u", "/", ":", "i">>
P_posts == <<"/", "p">>

RouterEntries ==
    { [pattern |-> P_users, method |-> "GET", name |-> <<>>,
       handler |-> [shape |-> "classTuple", class |-> "T1", methodName |-> "index"]],
      [pattern |-> P_user, methods |-> <<"get", "HEAD">>, name |-> <<"u", ".", "s">>,
       handler |-> [shape |-> "classTuple", class |-> "T1", methodName |-> "show"]],
      [pattern |-> P_posts, method |-> "Head", name |-> <<>>,
       handler |-> [shape |-> "importTuple", loads |-> "default", class |-> "T3",
                    methodName |-> "index"]],
      [pattern |-> P_posts, method |-> "post", name |-> <<>>,
       handler |-> [shape |-> "importTuple", loads |-> "throws", class |-> "T3",
                    methodName |-> "index"]],
      [pattern |-> P_user, name |-> <<>>,
       handler |-> [shape |-> "string",
                    reference |-> <<"#", "c", "/", "u", ".", "i", "n", "d", "e", "x">>]],
      [pattern |-> P_posts, method |-> "GET", name |-> <<>>,
       handler |-> [shape |-> "string",
                    reference |-> <<"#", "c", "/", "p", ".", "s", "h", "o", "w">>]],
      [pattern |-> P_users, method |-> "POST", name |-> <<>>,
       handler |-> [shape |-> "unsupported"]],
      [pattern |-> P_user, method |-> "POST", name |-> <<>>,
       handler |-> [shape |-> "string",
                    reference |-> <<"#", "c", "/", "x", ".", "i", "n", "d", "e", "x">>]],
      [method |-> "GET", name |-> <<>>,
       handler |-> [shape |-> "classTuple", class |-> "T1", methodName |-> "index"]],
      Null }

RouteLists ==
    UNION {[1..n -> RouterEntries] : n \in 1..MaxRoutes}

Routers ==
    {[available |-> FALSE]}
        \cup {[available |-> TRUE, format |-> "root", entries |-> l] : l \in RouteLists}
        \cup {[available |-> TRUE, format |-> f, entries |-> <<CHOOSE e \in RouterEntries : TRUE>>] :
                f \in {"array", "other"}}

IgnoreMethodsChoices ==
    { EmptyObject,
      [ignoreMethods |-> <<>>],
      [ignoreMethods |-> <<"HEAD">>],
      [ignoreMethods |-> <<"head", "Post">>] }

PatternChoices ==
    { EmptyObject,
      [exclude |-> <<P_posts>>],
      [include |-> <<<<"/", "u", "*">>>>],
      [include |-> <<<<"/">>>>, exclude |-> <<<<":", "i">>>>] }

RouteConfigs ==
    {Spread(i, q) : i \in IgnoreMethodsChoices, q \in PatternChoices}

SwaggerTest == [summary |-> "Test endpoint", tags |-> <<"Test">>]

\* The registry after the controllers in `d` were loaded, each decorating its
\* member with @Swagger({summary, tags}).
RECURSIVE RegistryAfter(_)
RegistryAfter(d) ==
    IF d = {} THEN EmptyObject
    ELSE LET tm == CHOOSE x \in d : TRUE
         IN  Swagger(RegistryAfter(d \ {tm}), tm[1], tm[2], SwaggerTest)

DecoratedSets ==
    { {}, {<<"T1", "index">>}, {<<"T1", "index">>, <<"T3", "index">>},
      {<<"T1", "show">>, <<"T3", "index">>} }

\* Routes of single-action controllers and of pre-resolved handlers: the
\* reference has no '.', or is carried by a {reference, handle} object.
ReferenceEntries ==
    { [pattern |-> P_users, method |-> "GET", name |-> <<>>,
       handler |-> [shape |-> "object", reference |-> <<"#", "c", "/", "u">>]],
      [pattern |-> P_users, method |-> "POST", name |-> <<>>,
       handler |-> [shape |-> "string", reference |-> <<"#", "c", "/", "u">>]],
      [pattern |-> P_posts, method |-> "GET", name |-> <<>>,
       handler |-> [shape |-> "object",
                    reference |-> <<"#", "c", "/", "p", ".", "i", "n", "d", "e", "x">>]] }

\* GET and HEAD /u/:i, named u.s, handled by UsersController.show
NamedShowEntry ==
    [pattern |-> P_user, methods |-> <<"get", "HEAD">>, name |-> <<"u", ".", "s">>,
     handler |-> [shape |-> "classTuple", class |-> "T1", methodName |-> "show"]]

\* GET /u/:i, unnamed, handled by '#c/u.index'
UnnamedParamEntry ==
    [pattern |-> P_user, name |-> <<>>,
     handler |-> [shape |-> "string",
                  reference |-> <<"#", "c", "/", "u", ".", "i", "n", "d", "e", "x">>]]

\* GET /u/{i}: a pattern that is its own converted path
BracePatternEntry ==
    [pattern |-> <<"/", "u", "/", "{", "i", "}">>, method |-> "GET", name |-> <<>>,
     handler |-> [shape |-> "classTuple", class |-> "T1", methodName |-> "index"]]

\* GET /u/i: the literal segment i where /u/:i has a parameter
LiteralSegmentEntry ==
    [pattern |-> <<"/", "u", "/", "i">>, method |-> "GET", name |-> <<>>,
     handler |-> [shape |-> "classTuple", class |-> "T1", methodName |-> "index"]]

\* routes that share a (path, method) pair
SharedPairLists ==
    { <<NamedShowEntry, UnnamedParamEntry>>, <<UnnamedParamEntry, NamedShowEntry>>,
      <<NamedShowEntry, BracePatternEntry>>, <<BracePatternEntry, UnnamedParamEntry>> }

\* route lists beside the enumerated ones
ExtraRouteLists ==
    {<<x>> : x \in ReferenceEntries} \cup SharedPairLists
        \cup {<<UnnamedParamEntry, LiteralSegmentEntry>>}

\* the controllers loaded with the routes of ExtraRouteLists
ExtraDecorated ==
    {<<"T1", "index">>, <<"T1", "show">>, <<"T1", "handle">>, <<"T3", "index">>}

\* a conversion still in flight, fulfilled with `value`
Promise(value) == [then |-> TRUE, value |-> value]

\* The registry after the controllers of ExtraDecorated were loaded, where
\* PostsController.index also carries a response and a request body stored
\* through setSwaggerMetadata (one of them a promise), and the placeholders
\* of @SwaggerResponse, @SwaggerParameter and @SwaggerRequestBody.
ExtraRegistry ==
    LET r0 == RegistryAfter(ExtraDecorated)
        r1 == setSwaggerMetadata(r0, "T3", "index",
                  [responses |-> MapSet(MapSet(EmptyObject, "201",
                                               Promise([description |-> "Created"])),
                                        "204", [description |-> "No Content"]),
                   parameters |-> <<Promise([name |-> "page", in |-> "query"])>>])
        r2 == SwaggerResponse(r1, "T3", "index", 200, "OK", "UserSchema")
        r3 == SwaggerParameter(r2, "T3", "index", "id", "query", "IdSchema", FALSE, "id")
        r4 == SwaggerRequestBody(r3, "T3", "index", "body", "UserSchema",
                                 [kind |-> "undefined"])
    IN  r4

InitRoutes ==
    /\ \/ decorated \in DecoratedSets /\ router \in Routers
       \/ /\ decorated = ExtraDecorated
          /\ router \in {[available |-> TRUE, format |-> "root", entries |-> l] :
                            l \in ExtraRouteLists}
    /\ SWAGGER_METADATA = IF decorated = ExtraDecorated THEN ExtraRegistry
                          ELSE RegistryAfter(decorated)
    /\ apps = Cardinality(decorated)
    /\ lastApp = NoApp
    /\ respLog = EmptyObject
    /\ paramLog = EmptyObject
    /\ config \in RouteConfigs
    /\ routes = <<>>
    /\ filteredRoutes = <<>>
    /\ routeIdx = 0
    /\ paths = EmptyObject
    /\ imported = {}
    /\ SchemaIdle
    /\ ServiceIdle
    /\ MiddlewareIdle
    /\ PassesIdle
    /\ pc = "start"

NextRoutes ==
    \/ RouterUnavailable
    \/ RouterResolved
    \/ ProcessRoute
    \/ ReturnPaths

SpecRoutes == InitRoutes /\ [][NextRoutes]_vars

-----------------------------------------------------------------------------
(* Properties of route filtering and of the paths map                      *)

\* The controller type and member a route's handler denotes ("none" when the
\* handler resolves to no controller).
HandlerTarget(route) ==
    IF route.controllerClass # "undefined"
    THEN <<route.controllerClass, route.methodName>>
    ELSE IF route.importFunction.defined
    THEN IF route.importFunction.loads \in {"default", "module"}
         THEN <<route.importFunction.class, route.methodName>>
         ELSE <<"none", "none">>
    ELSE LET parts == Split(route.handler, ".")
         IN  IF Len(parts) < 2 THEN <<"none", "none">>
             ELSE <<ControllerModules(Join(parts[1])), Join(parts[2])>>

HasRegistryEntry(route) ==
    LET tm == HandlerTarget(route)
    IN  /\ tm[1] # "none"
        /\ getMetadataKey(tm[1], tm[2]) \in DOMAIN SWAGGER_METADATA

ProcessedRoutes == 1..(IF routeIdx - 1 < Len(filteredRoutes)
                       THEN routeIdx - 1 ELSE Len(filteredRoutes))

PathKey(route) == Join(convertRoutePattern(route.pattern))

\* C1: a route whose handler resolves to a controller type without a registry
\* entry for (type, member) contributes no key to paths: every path key and
\* every method key under it is there because of a route that has a registry
\* entry, and no path item is empty.
C1_UndocumentedRoutesOmitted ==
    pc \in {"loop", "done"} =>
        \A p \in DOMAIN paths :
            /\ DOMAIN paths[p] # {}
            /\ \A m \in DOMAIN paths[p] :
                  \E i \in ProcessedRoutes :
                      /\ PathKey(filteredRoutes[i]) = p
                      /\ toLowerCase(filteredRoutes[i].method) = m
                      /\ HasRegistryEntry(filteredRoutes[i])

\* A finished pass over a route that resolves to a controller without an
\* entry, whose path is absent, next to a documented route.
C1_Witness ==
    /\ pc = "done"
    /\ paths # EmptyObject
    /\ \E i \in 1..Len(filteredRoutes) :
          /\ HandlerTarget(filteredRoutes[i])[1] # "none"
          /\ ~HasRegistryEntry(filteredRoutes[i])
          /\ PathKey(filteredRoutes[i]) \notin DOMAIN paths

IgnoreMethodsOf(cfg) ==
    IF "ignoreMethods" \in DOMAIN cfg THEN cfg.ignoreMethods ELSE <<>>

\* C5: with a non-empty routes.ignoreMethods, no route returned by
\* filterRoutes has a method equal, after upper-casing both, to an entry of
\* ignoreMethods.
C5_IgnoredMethodsExcluded ==
    pc \in {"loop", "done"} =>
        \A i \in 1..Len(filteredRoutes) :
            \A j \in 1..Len(IgnoreMethodsOf(config)) :
                toUpperCase(filteredRoutes[i].method)
                    # toUpperCase(IgnoreMethodsOf(config)[j])

\* C6: when routes.ignoreMethods is undefined or empty and neither include
\* nor exclude is configured, filterRoutes returns every extracted route.
C6_NoFilterKeepsAllRoutes ==
    (/\ pc \in {"loop", "done"}
     /\ IgnoreMethodsOf(config) = <<>>
     /\ "include" \notin DOMAIN config
     /\ "exclude" \notin DOMAIN config)
        => /\ Len(filteredRoutes) = Len(routes)
           /\ filteredRoutes = routes

\* Several routes were extracted and filtered under such a configuration.
C6_Witness ==
    /\ pc = "loop"
    /\ config = [ignoreMethods |-> <<>>]
    /\ Len(routes) >= 2
    /\ Len(filteredRoutes) = Len(routes)

-----------------------------------------------------------------------------
(* file_helpers.ts                                                         *)

\* Symbol-keyed properties: skipped by Object.keys and Object.entries, copied
\* by object spread.
SymbolKeys ==
    {"FILE_SCHEMA_SYMBOL", "VINE_FILE_SCHEMA_SYMBOL", "ZOD_FILE_SCHEMA_SYMBOL",
     "TYPEBOX_FILE_SCHEMA_SYMBOL", "Kind", "OptionalKind"}

ObjectKeys(obj) == (DOMAIN obj) \ SymbolKeys

\* properties of the helpers whose value is a function
MethodKeys == {"clone", "parse", "safeParse", "optional", "nullable", "describe"}

TypeofFunction(obj, key) ==
    /\ key \in MethodKeys
    /\ (DOMAIN obj) \cap {"VINE_FILE_SCHEMA_SYMBOL", "ZOD_FILE_SCHEMA_SYMBOL"} # {}

Restrict(obj, keys) == [k \in keys |-> obj[k]]

createBaseFileSchema(options) ==
    IF "multiple" \in DOMAIN options /\ options.multiple
    THEN Spread([type |-> "array",
                 items |-> [type |-> "string", format |-> "binary"]],
                Restrict(options, (DOMAIN options)
                                     \cap {"description", "minItems", "maxItems"}))
    ELSE Spread([type |-> "string", format |-> "binary"],
                Restrict(options, (DOMAIN options) \cap {"description"}))

openapiFile(options) ==
    Spread(createBaseFileSchema(options), [FILE_SCHEMA_SYMBOL |-> TRUE])

vineFile(options) ==
    Spread(createBaseFileSchema(options),
           [FILE_SCHEMA_SYMBOL |-> TRUE,
            VINE_FILE_SCHEMA_SYMBOL |-> TRUE,
            options |-> [bail |-> TRUE, allowNull |-> FALSE, isOptional |-> FALSE],
            validations |-> <<>>,
            clone |-> "function"])

typeboxFile(options) ==
    Spread(createBaseFileSchema(options),
           [FILE_SCHEMA_SYMBOL |-> TRUE,
            TYPEBOX_FILE_SCHEMA_SYMBOL |-> TRUE,
            Kind |-> "String"])

zodFile(options) ==
    Spread(createBaseFileSchema(options),
           [FILE_SCHEMA_SYMBOL |-> TRUE,
            ZOD_FILE_SCHEMA_SYMBOL |-> TRUE,
            _def |-> [typeName |-> "ZodString"],
            _type |-> "string",
            parse |-> "function",
            safeParse |-> "function",
            optional |-> "function",
            nullable |-> "function",
            describe |-> "function"])

isFileSchema(schema) ==
    /\ "FILE_SCHEMA_SYMBOL" \in DOMAIN schema
    /\ schema.FILE_SCHEMA_SYMBOL = TRUE

isVineFileSchema(schema) ==
    /\ "VINE_FILE_SCHEMA_SYMBOL" \in DOMAIN schema
    /\ schema.VINE_FILE_SCHEMA_SYMBOL = TRUE

EXCLUDED_PROPERTIES ==
    {"clone", "options", "validations", "_def", "_type", "parse", "safeParse",
     "optional", "nullable", "describe"}

toOpenAPIFileSchema(schema) ==
    Restrict(schema, {key \in ObjectKeys(schema) :
                         /\ key \notin EXCLUDED_PROPERTIES
                         /\ ~TypeofFunction(schema, key)})

-----------------------------------------------------------------------------
(* Schemas as the application declares them.                               *)
(*                                                                         *)
(* A declared schema is a tree of nodes [kind, optional, nullable] with    *)
(* kind "string" | "datetime" | "object" (fields) | "array" (each), in     *)
(* which a file field is the record made by the file helper of the         *)
(* validator in use.  Each validator library is modelled by what it hands  *)
(* to the converters for such a tree.                                      *)

FieldOrder == <<"req", "nul", "opt", "both", "propertyName", "b">>

OrderedKeys(keys) ==
    LET In(k) == k \in keys IN SelectSeq(FieldOrder, In)

SeqToSet(seq) == {seq[i] : i \in 1..Len(seq)}

IsDeclared(node) == "kind" \in DOMAIN node

Leaf(kind, optional, nullable) ==
    [kind |-> kind, optional |-> optional, nullable |-> nullable]

\* whether a declared tree holds a node the validator library did not make
RECURSIVE ContainsForeign(_)
ContainsForeign(node) ==
    IF ~IsDeclared(node) THEN TRUE
    ELSE IF node.kind = "object"
    THEN \E f \in DOMAIN node.fields : ContainsForeign(node.fields[f])
    ELSE IF node.kind = "array" THEN ContainsForeign(node.each)
    ELSE FALSE

\* vine.compile(schema).toJSON(): {schema: {type: 'root', schema}, refs}
RECURSIVE VineNode(_, _)
VineNode(node, fieldName) ==
    LET common == [fieldName |-> fieldName, propertyName |-> fieldName,
                   bail |-> TRUE, allowNull |-> node.nullable,
                   isOptional |-> node.optional]
    IN  IF node.kind = "object"
        THEN LET names == OrderedKeys(DOMAIN node.fields)
             IN  Spread(common,
                    [type |-> "object",
                     properties |-> [i \in 1..Len(names) |->
                                        VineNode(node.fields[names[i]], names[i])]])
        ELSE IF node.kind = "array"
        THEN Spread(common, [type |-> "array", each |-> VineNode(node.each, "*")])
        ELSE Spread(common,
                [type |-> "literal",
                 subtype |-> IF node.kind = "datetime" THEN "date" ELSE "string",
                 validations |-> IF node.kind = "string" /\ ~node.optional /\ ~node.nullable
                                 THEN <<[ruleFnId |-> "ref://1"]>> ELSE <<>>])

VineRefs == [r \in {"ref://1"} |-> [options |-> [min |-> 2]]]

VineCompile(schema) ==
    [schema |-> [type |-> "root", schema |-> VineNode(schema, "")], refs |-> VineRefs]

\* z.toJSONSchema(schema, {target: 'openapi-3.0'})
RECURSIVE ZodEmit(_)
ZodEmit(node) ==
    LET nullable == IF node.nullable THEN [nullable |-> TRUE] ELSE EmptyObject
    IN  IF node.kind = "object"
        THEN LET required == OrderedKeys({f \in DOMAIN node.fields :
                                              ~node.fields[f].optional})
             IN  Spread(Spread([type |-> "object",
                                properties |-> [f \in DOMAIN node.fields |->
                                                   ZodEmit(node.fields[f])],
                                additionalProperties |-> FALSE],
                               IF required # <<>> THEN [required |-> required]
                               ELSE EmptyObject),
                        nullable)
        ELSE IF node.kind = "array"
        THEN Spread([type |-> "array", items |-> ZodEmit(node.each)], nullable)
        ELSE IF node.kind = "datetime"
        THEN Spread([type |-> "string", format |-> "date-time", pattern |-> "^regex$"],
                    nullable)
        ELSE Spread([type |-> "string"], nullable)

\* Type.Object / Type.Array / Type.String, Type.Optional(T),
\* Type.Union([T, Type.Null()]); a file field is the typeboxFile record.
RECURSIVE TypeBoxBuild(_)
TypeBoxBuild(node) ==
    IF ~IsDeclared(node) THEN node
    ELSE LET plain ==
                 IF node.kind = "object"
                 THEN LET required == OrderedKeys({f \in DOMAIN node.fields :
                                 ~(IsDeclared(node.fields[f]) /\ node.fields[f].optional)})
                      IN  Spread([type |-> "object",
                                  properties |-> [f \in DOMAIN node.fields |->
                                                     TypeBoxBuild(node.fields[f])],
                                  Kind |-> "Object"],
                                 IF required # <<>> THEN [required |-> required]
                                 ELSE EmptyObject)
                 ELSE IF node.kind = "array"
                 THEN [type |-> "array", items |-> TypeBoxBuild(node.each),
                       Kind |-> "Array"]
                 ELSE IF node.kind = "datetime"
                 THEN [type |-> "string", format |-> "date-time", Kind |-> "String"]
                 ELSE [type |-> "string", Kind |-> "String"]
             union == IF node.nullable
                      THEN [anyOf |-> <<plain, [type |-> "null", Kind |-> "Null"]>>,
                            Kind |-> "Union"]
                      ELSE plain
         IN  IF node.optional THEN Spread(union, [OptionalKind |-> "Optional"])
             ELSE union

\* A JSON Schema written by hand (no validator configured).
RECURSIVE RawJsonSchema(_)
RawJsonSchema(node) ==
    IF ~IsDeclared(node) THEN node
    ELSE LET nullable == IF node.nullable THEN [nullable |-> TRUE] ELSE EmptyObject
         IN  IF node.kind = "object"
             THEN LET required == OrderedKeys({f \in DOMAIN node.fields :
                             ~(IsDeclared(node.fields[f]) /\ node.fields[f].optional)})
                  IN  Spread(Spread([type |-> "object",
                                     properties |-> [f \in DOMAIN node.fields |->
                                                        RawJsonSchema(node.fields[f])]],
                                    IF required # <<>> THEN [required |-> required]
                                    ELSE EmptyObject),
                             nullable)
             ELSE IF node.kind = "array"
             THEN Spread([type |-> "array", items |-> RawJsonSchema(node.each)], nullable)
             ELSE IF node.kind = "datetime"
             THEN Spread([type |-> "string", format |-> "date-time"], nullable)
             ELSE Spread([type |-> "string"], nullable)

\* The value handed to the converters for a declared schema.
SchemaInput(schema, v) ==
    IF v = "typebox" THEN TypeBoxBuild(schema)
    ELSE IF v = "none" THEN RawJsonSchema(schema)
    ELSE schema

-----------------------------------------------------------------------------
(* schema_utils.ts                                                         *)

Has(obj, key) == key \in DOMAIN obj

Delete(obj, key) == Restrict(obj, (DOMAIN obj) \ {key})

CombinatorKeys == {"anyOf", "oneOf", "allOf"}

RECURSIVE cleanZodJsonSchema(_)
cleanZodJsonSchema(schema) ==
    LET c1 == IF Has(schema, "format") /\ schema.format = "date-time"
                 /\ Has(schema, "pattern")
              THEN Delete(schema, "pattern") ELSE schema
        Clean(key) ==
            IF key = "properties"
            THEN [k \in DOMAIN c1.properties |-> cleanZodJsonSchema(c1.properties[k])]
            ELSE IF key = "items" THEN cleanZodJsonSchema(c1.items)
            ELSE IF key \in CombinatorKeys
            THEN [i \in 1..Len(c1[key]) |-> cleanZodJsonSchema(c1[key][i])]
            ELSE c1[key]
    IN  [key \in DOMAIN c1 |-> Clean(key)]

RECURSIVE fixNullableFieldsInSchema(_)
fixNullableFieldsInSchema(schema) ==
    LET Keep(fieldName) ==
            \/ ~Has(schema.properties, fieldName)
            \/ ~(/\ Has(schema.properties[fieldName], "nullable")
                 /\ schema.properties[fieldName].nullable = TRUE)
        f1 == IF /\ Has(schema, "type") /\ schema.type = "object"
                 /\ Has(schema, "properties") /\ Has(schema, "required")
              THEN IF SelectSeq(schema.required, Keep) = <<>>
                   THEN Delete(schema, "required")
                   ELSE MapSet(schema, "required", SelectSeq(schema.required, Keep))
              ELSE schema
        Fix(key) ==
            IF key = "properties"
            THEN [k \in DOMAIN f1.properties |->
                     fixNullableFieldsInSchema(f1.properties[k])]
            ELSE IF key = "items" THEN fixNullableFieldsInSchema(f1.items)
            ELSE IF key \in CombinatorKeys
            THEN [i \in 1..Len(f1[key]) |-> fixNullableFieldsInSchema(f1[key][i])]
            ELSE f1[key]
    IN  [key \in DOMAIN f1 |-> Fix(key)]

\* a declared object: the library object has `shape` (Zod) / getProperties (VineJS)
HasShape(schema) == IsDeclared(schema) /\ schema.kind = "object"

\* z.object(shape) / vine.object(props)
ObjectOf(fields) ==
    [kind |-> "object", fields |-> fields, optional |-> FALSE, nullable |-> FALSE]

extractZodFileSchemas(zodSchema) ==
    IF ~HasShape(zodSchema) THEN [schema |-> zodSchema, fileSchemas |-> EmptyObject]
    ELSE LET shape == zodSchema.fields
             files == {key \in DOMAIN shape : isFileSchema(shape[key])}
         IN  IF files # {}
             THEN [schema |-> ObjectOf(Restrict(shape, (DOMAIN shape) \ files)),
                   fileSchemas |-> [key \in files |-> toOpenAPIFileSchema(shape[key])]]
             ELSE [schema |-> zodSchema, fileSchemas |-> EmptyObject]

mergeFileSchemas(jsonSchema, fileSchemas) ==
    IF DOMAIN fileSchemas = {} THEN jsonSchema
    ELSE MapSet(jsonSchema, "properties",
                Spread(IF Has(jsonSchema, "properties") THEN jsonSchema.properties
                       ELSE EmptyObject,
                       fileSchemas))

ZodFallbackOld ==
    [type |-> "object",
     description |-> "Zod schema (requires Zod v4+ for automatic conversion)"]

ZodFallback ==
    [type |-> "object", description |-> "Zod schema (Zod v4+ required for conversion)"]

\* the body of zodToJsonSchema's try block; Thrown when a statement of it throws
zodToJsonSchemaTry(zodSchema, z) ==
    IF z = "unavailable" THEN Thrown
    ELSE IF z = "old" THEN ZodFallbackOld
    ELSE LET ex == extractZodFileSchemas(zodSchema)
         IN  IF z = "throws" \/ ContainsForeign(ex.schema) THEN Thrown
             ELSE mergeFileSchemas(
                      fixNullableFieldsInSchema(cleanZodJsonSchema(ZodEmit(ex.schema))),
                      ex.fileSchemas)

zodToJsonSchema(zodSchema, z) ==
    IF zodToJsonSchemaTry(zodSchema, z) = Thrown THEN ZodFallback
    ELSE zodToJsonSchemaTry(zodSchema, z)

RECURSIVE cleanTypeBoxFileSchemas(_)
cleanTypeBoxFileSchemas(schema) ==
    LET Clean(key) ==
            IF key = "properties"
            THEN [propName \in DOMAIN schema.properties |->
                     IF isFileSchema(schema.properties[propName])
                     THEN toOpenAPIFileSchema(schema.properties[propName])
                     ELSE cleanTypeBoxFileSchemas(schema.properties[propName])]
            ELSE IF key \in {"items", "options", "_def"}
            THEN cleanTypeBoxFileSchemas(schema[key])
            ELSE schema[key]
    IN  [key \in ObjectKeys(schema) |-> Clean(key)]

RECURSIVE fixTypeBoxNullableFields(_)
fixTypeBoxNullableFields(schema) ==
    LET HasNullType(property) ==
            /\ Has(property, "anyOf")
            /\ \E i \in 1..Len(property.anyOf) :
                  Has(property.anyOf[i], "type") /\ property.anyOf[i].type = "null"
        Keep(fieldName) ==
            \/ ~Has(schema.properties, fieldName)
            \/ ~HasNullType(schema.properties[fieldName])
        f1 == IF /\ Has(schema, "type") /\ schema.type = "object"
                 /\ Has(schema, "properties") /\ Has(schema, "required")
              THEN IF SelectSeq(schema.required, Keep) = <<>>
                   THEN Delete(schema, "required")
                   ELSE MapSet(schema, "required", SelectSeq(schema.required, Keep))
              ELSE schema
        Fix(key) ==
            IF key = "properties"
            THEN [k \in DOMAIN f1.properties |->
                     fixTypeBoxNullableFields(f1.properties[k])]
            ELSE IF key = "items" THEN fixTypeBoxNullableFields(f1.items)
            ELSE IF key \in CombinatorKeys
            THEN [i \in 1..Len(f1[key]) |-> fixTypeBoxNullableFields(f1[key][i])]
            ELSE f1[key]
    IN  [key \in DOMAIN f1 |-> Fix(key)]

typeBoxToJsonSchema(typeBoxSchema) ==
    fixTypeBoxNullableFields(cleanTypeBoxFileSchemas(typeBoxSchema))

extractFileSchemas(vineSchema) ==
    IF ~HasShape(vineSchema) THEN [schema |-> vineSchema, fileSchemas |-> EmptyObject]
    ELSE LET properties == vineSchema.fields
             files == {key \in DOMAIN properties : isVineFileSchema(properties[key])}
         IN  IF files # {}
             THEN [schema |-> ObjectOf(Restrict(properties, (DOMAIN properties) \ files)),
                   fileSchemas |-> [key \in files |->
                                       toOpenAPIFileSchema(properties[key])]]
             ELSE [schema |-> vineSchema, fileSchemas |-> EmptyObject]

\* the validations loop of convertVineJSProperty, from position i on
RECURSIVE ApplyValidations(_, _, _, _)
ApplyValidations(jsonProperty, prop, refs, i) ==
    IF i > Len(prop.validations) THEN jsonProperty
    ELSE LET refId == prop.validations[i].ruleFnId
             options == IF Has(refs, refId) /\ Has(refs[refId], "options")
                        THEN refs[refId].options ELSE EmptyObject
             j1 == IF Has(options, "min") /\ prop.subtype = "string"
                   THEN MapSet(jsonProperty, "minLength", options.min)
                   ELSE IF Has(options, "min") /\ prop.subtype = "number"
                   THEN MapSet(jsonProperty, "minimum", options.min)
                   ELSE jsonProperty
             j2 == IF Has(options, "max") /\ prop.subtype = "string"
                   THEN MapSet(j1, "maxLength", options.max)
                   ELSE IF Has(options, "max") /\ prop.subtype = "number"
                   THEN MapSet(j1, "maximum", options.max)
                   ELSE j1
         IN  ApplyValidations(j2, prop, refs, i + 1)

\* the fields a VineJS object node contributes: not the empty name, not 'propertyName'
VineFieldKept(prop) == prop.fieldName # "" /\ prop.fieldName # "propertyName"

\* Variant: a field is required as soon as it is not optional.
VineFieldRequired_ignoreNull(prop) == ~prop.isOptional

VineFieldRequired(prop) == ~prop.isOptional /\ ~prop.allowNull

RECURSIVE convertVineJSProperty(_, _)
convertVineJSProperty(prop, refs) ==
    LET nullable == IF prop.allowNull THEN [nullable |-> TRUE] ELSE EmptyObject
    IN  IF prop.type = "array" /\ Has(prop, "each")
        THEN Spread([type |-> "array", items |-> convertVineJSProperty(prop.each, refs)],
                    nullable)
        ELSE IF prop.type = "object" /\ Has(prop, "properties")
        THEN LET kept == SelectSeq(prop.properties, VineFieldKept)
                 required == SelectSeq(kept, VineFieldRequired)
                 Named(name) == CHOOSE i \in 1..Len(kept) :
                                    /\ kept[i].fieldName = name
                                    /\ \A j \in (i + 1)..Len(kept) : kept[j].fieldName # name
             IN  Spread(Spread([type |-> "object",
                                properties |->
                                    [name \in {kept[i].fieldName : i \in 1..Len(kept)} |->
                                        convertVineJSProperty(kept[Named(name)], refs)],
                                additionalProperties |-> FALSE],
                               IF required # <<>>
                               THEN [required |-> [i \in 1..Len(required) |->
                                                      required[i].fieldName]]
                               ELSE EmptyObject),
                        nullable)
        ELSE LET base == IF prop.subtype = "number" THEN [type |-> "number"]
                         ELSE IF prop.subtype = "date"
                         THEN [type |-> "string", format |-> "date-time"]
                         ELSE IF prop.subtype = "boolean" THEN [type |-> "boolean"]
                         ELSE [type |-> "string"]
             IN  ApplyValidations(Spread(base, nullable), prop, refs, 1)

convertVineJSToJsonSchema(vineOutput) ==
    IF ~Has(vineOutput, "schema") \/ ~Has(vineOutput.schema, "schema")
    THEN [type |-> "object", description |-> "No schema found in VineJS output"]
    ELSE LET vineSchema == vineOutput.schema.schema
             refs == vineOutput.refs
         IN  IF vineSchema.type = "literal" THEN convertVineJSProperty(vineSchema, refs)
             ELSE IF vineSchema.type = "object" /\ Has(vineSchema, "properties")
             THEN LET kept == SelectSeq(vineSchema.properties, VineFieldKept)
                      required == SelectSeq(kept, VineFieldRequired)
                      Named(name) == CHOOSE i \in 1..Len(kept) :
                                         /\ kept[i].fieldName = name
                                         /\ \A j \in (i + 1)..Len(kept) :
                                               kept[j].fieldName # name
                  IN  Spread([type |-> "object",
                              properties |->
                                  [name \in {kept[i].fieldName : i \in 1..Len(kept)} |->
                                      convertVineJSProperty(kept[Named(name)], refs)],
                              additionalProperties |-> FALSE],
                             IF required # <<>>
                             THEN [required |-> [i \in 1..Len(required) |->
                                                    required[i].fieldName]]
                             ELSE EmptyObject)
             ELSE [type |-> "object", description |-> "Unsupported VineJS schema type"]

VineFallback == [type |-> "object", description |-> "VineJS schema (conversion failed)"]

\* the body of vineToJsonSchema's try block; Thrown when a statement of it throws
vineToJsonSchemaTry(vineSchema, vine) ==
    IF vine = "unavailable" THEN Thrown
    ELSE LET ex == extractFileSchemas(vineSchema)
         IN  IF vine = "throws" \/ ContainsForeign(ex.schema) THEN Thrown
             ELSE mergeFileSchemas(convertVineJSToJsonSchema(VineCompile(ex.schema)),
                                   ex.fileSchemas)

\* Variant: the exception of the try block is not caught.
vineToJsonSchema_uncaught(vineSchema, vine) == vineToJsonSchemaTry(vineSchema, vine)

vineToJsonSchema(vineSchema, vine) ==
    IF vineToJsonSchemaTry(vineSchema, vine) = Thrown THEN VineFallback
    ELSE vineToJsonSchemaTry(vineSchema, vine)

convertToJsonSchema(schema, v, library) ==
    IF v = "zod" THEN zodToJsonSchema(schema, library)
    ELSE IF v = "typebox" THEN typeBoxToJsonSchema(schema)
    ELSE IF v = "vinejs" THEN vineToJsonSchema(schema, library)
    ELSE schema

createResponseSchema(schema, v, library) ==
    [content |->
        [c \in {"application/json"} |-> [schema |-> convertToJsonSchema(schema, v, library)]]]

RECURSIVE processSchemaForFiles(_)
processSchemaForFiles(schema) ==
    IF isFileSchema(schema) THEN toOpenAPIFileSchema(schema)
    ELSE IF Has(schema, "properties")
    THEN MapSet(schema, "properties",
                [key \in DOMAIN schema.properties |->
                    processSchemaForFiles(schema.properties[key])])
    ELSE IF Has(schema, "items")
    THEN MapSet(schema, "items", processSchemaForFiles(schema.items))
    ELSE schema

RECURSIVE schemaContainsFiles(_)
schemaContainsFiles(schema) ==
    \/ isFileSchema(schema)
    \/ Has(schema, "type") /\ schema.type = "string"
       /\ Has(schema, "format") /\ schema.format = "binary"
    \/ Has(schema, "type") /\ schema.type = "array" /\ Has(schema, "items")
       /\ Has(schema.items, "type") /\ schema.items.type = "string"
       /\ Has(schema.items, "format") /\ schema.items.format = "binary"
    \/ Has(schema, "properties")
       /\ \E key \in DOMAIN schema.properties :
             schemaContainsFiles(schema.properties[key])

createRequestBodySchema(schema, v, library, contentType) ==
    LET processedSchema == processSchemaForFiles(convertToJsonSchema(schema, v, library))
        types == IF contentType = "multipart/form-data" THEN {"multipart/form-data"}
                 ELSE IF contentType = "application/x-www-form-urlencoded"
                 THEN {"application/x-www-form-urlencoded"}
                 ELSE IF schemaContainsFiles(processedSchema)
                 THEN {"multipart/form-data"}
                 ELSE {"application/json", "application/x-www-form-urlencoded"}
    IN  [content |-> [c \in types |-> [schema |-> processedSchema]]]

-----------------------------------------------------------------------------
(* One call on a declared schema: as a parameter schema                    *)
(* (convertToJsonSchema), a response schema (createResponseSchema) or a    *)
(* request body schema (createRequestBodySchema).                          *)

Converted(u, result) ==
    /\ spc = "start"
    /\ usage' = u
    /\ converted' = result
    /\ spc' = "done"
    /\ UNCHANGED <<declared, validator, lib>>
    /\ UNCHANGED <<regVars, genVars, svcVars, passVars, mwVars>>

ConvertParameter ==
    /\ Converted("parameter",
                 convertToJsonSchema(SchemaInput(declared, validator), validator, lib))
    /\ UNCHANGED bodyOptions

ConvertResponse ==
    /\ Converted("response",
                 createResponseSchema(SchemaInput(declared, validator), validator, lib))
    /\ UNCHANGED bodyOptions

ContentTypes ==
    {"application/json", "multipart/form-data", "application/x-www-form-urlencoded"}

\* the options object of @SwaggerRequestBody: absent, without contentType,
\* or with one of the three content types
BodyOptionsChoices ==
    { [kind |-> "undefined"], [kind |-> "object"] }
        \cup {[kind |-> "object", contentType |-> c] : c \in ContentTypes}

\* The decorator stores RequestBodyContentType(options) with the raw schema;
\* the stored content type is what createRequestBodySchema is called with.
ConvertRequestBody ==
    \E options \in BodyOptionsChoices :
        /\ Converted("requestBody",
                     createRequestBodySchema(SchemaInput(declared, validator), validator,
                                             lib, RequestBodyContentType(options)))
        /\ bodyOptions' = options

\* the schema that reaches the document
EmittedSchema ==
    IF usage = "parameter" THEN converted
    ELSE converted.content[CHOOSE c \in DOMAIN converted.content : TRUE].schema

\* nesting depth of the declared schemas below the root object
MaxDepth == 1

Validators == {"vinejs", "zod", "typebox", "none"}

LibStates(v) ==
    IF v = "zod" THEN {"ok", "unavailable", "throws", "old"}
    ELSE IF v = "vinejs" THEN {"ok", "unavailable", "throws"}
    ELSE {"ok"}

FileOptionsChoices == {[multiple |-> FALSE], [multiple |-> TRUE, description |-> "files"]}

FileHelper(v, options) ==
    IF v = "vinejs" THEN vineFile(options)
    ELSE IF v = "zod" THEN zodFile(options)
    ELSE IF v = "typebox" THEN typeboxFile(options)
    ELSE openapiFile(options)

Files(v) == {FileHelper(v, options) : options \in FileOptionsChoices}

LeafSets ==
    {[req |-> Leaf("string", FALSE, FALSE), nul |-> Leaf("string", FALSE, TRUE),
      opt |-> Leaf("datetime", TRUE, FALSE), both |-> Leaf("string", TRUE, TRUE)],
     [nul |-> Leaf("string", FALSE, TRUE),
      propertyName |-> Leaf("string", FALSE, FALSE)]}

ChildLeaves == {Leaf("string", FALSE, FALSE), Leaf("string", FALSE, TRUE)}

\* (optional, nullable) of a nested object
ObjectMarks == {<<FALSE, FALSE>>, <<FALSE, TRUE>>, <<TRUE, FALSE>>}

ArrayOf(each) == [kind |-> "array", each |-> each, optional |-> FALSE, nullable |-> FALSE]

RECURSIVE Children(_, _)
RECURSIVE Objects(_, _)
Objects(v, d) ==
    {[kind |-> "object", fields |-> Spread(leaves, child),
      optional |-> marks[1], nullable |-> marks[2]] :
        leaves \in LeafSets,
        child \in {EmptyObject} \cup {[b |-> c] : c \in Children(v, d - 1)},
        marks \in ObjectMarks}

Children(v, d) ==
    LET simple == ChildLeaves \cup Files(v)
    IN  IF d = 0 THEN simple
        ELSE simple \cup Objects(v, d)
                    \cup {ArrayOf(each) : each \in simple \cup Objects(v, d)}

DeclaredSchemas(v) ==
    Files(v) \cup
    {ObjectOf(Spread(leaves, child)) :
        leaves \in LeafSets,
        child \in {EmptyObject} \cup {[b |-> c] : c \in Children(v, MaxDepth)}}

InitSchema ==
    /\ SWAGGER_METADATA = EmptyObject
    /\ apps = 0
    /\ lastApp = NoApp
    /\ respLog = EmptyObject
    /\ paramLog = EmptyObject
    /\ decorated = {}
    /\ GenIdle
    /\ ServiceIdle
    /\ MiddlewareIdle
    /\ PassesIdle
    /\ validator \in Validators
    /\ lib \in LibStates(validator)
    /\ declared \in DeclaredSchemas(validator)
    /\ usage = "none"
    /\ bodyOptions = [kind |-> "undefined"]
    /\ converted = EmptyObject
    /\ spc = "start"

NextSchema ==
    \/ ConvertParameter
    \/ ConvertResponse
    \/ ConvertRequestBody

SpecSchema == InitSchema /\ [][NextSchema]_vars

-----------------------------------------------------------------------------
(* Properties of the schema conversion                                     *)

\* what is left for the library after the file fields of the root object
\* were taken out holds a node the library did not make
RemainderForeign ==
    IF HasShape(declared)
    THEN \E f \in DOMAIN declared.fields :
            IsDeclared(declared.fields[f]) /\ ContainsForeign(declared.fields[f])
    ELSE ContainsForeign(declared)

\* compiling / emitting throws, or the validator library is unavailable
ConversionFails ==
    /\ validator \in {"vinejs", "zod"}
    /\ lib # "ok" \/ RemainderForeign

\* the object node of a nullable TypeBox object is the first anyOf branch
NodeOf(out) == IF Has(out, "anyOf") THEN out.anyOf[1] ELSE out

RequiredOf(out) == IF Has(out, "required") THEN SeqToSet(out.required) ELSE {}

\* the fields a converter keeps of a declared object
KeptFields(node) ==
    (DOMAIN node.fields) \ (IF validator = "vinejs" THEN {"propertyName"} ELSE {})

RECURSIVE RequiredFollowsMarks(_, _)
RequiredFollowsMarks(node, out) ==
    IF ~IsDeclared(node) THEN TRUE
    ELSE IF node.kind = "object"
    THEN /\ Has(NodeOf(out), "properties")
         /\ KeptFields(node) = DOMAIN NodeOf(out).properties
         /\ \A f \in KeptFields(node) :
               IsDeclared(node.fields[f]) =>
                  /\ (node.fields[f].nullable /\ ~node.fields[f].optional)
                        => f \notin RequiredOf(NodeOf(out))
                  /\ (~node.fields[f].nullable /\ ~node.fields[f].optional)
                        => f \in RequiredOf(NodeOf(out))
                  /\ RequiredFollowsMarks(node.fields[f], NodeOf(out).properties[f])
    ELSE IF node.kind = "array"
    THEN /\ Has(NodeOf(out), "items")
         /\ RequiredFollowsMarks(node.each, NodeOf(out).items)
    ELSE TRUE

IsFallbackNode(out) ==
    /\ Has(out, "type") /\ out.type = "object"
    /\ Has(out, "description") /\ out.description # ""

\* C3: convertToJsonSchema never throws: whatever the declared schema and
\* the validator tag, a call returns a value; when compiling or emitting
\* the schema throws or the validator library is unavailable, that value
\* is a node with type "object" and a non-empty description.
C3_ConversionNeverThrows ==
    spc = "done" =>
        /\ EmittedSchema # Thrown
        /\ ConversionFails => IsFallbackNode(EmittedSchema)

\* C3 witness: the VineJS library could not be imported and the call
\* returned the fallback node.
C3_Witness ==
    /\ spc = "done" /\ usage = "parameter"
    /\ validator = "vinejs" /\ lib = "unavailable"
    /\ converted = VineFallback

MarkerAndHelperKeys ==
    {"FILE_SCHEMA_SYMBOL", "VINE_FILE_SCHEMA_SYMBOL", "ZOD_FILE_SCHEMA_SYMBOL",
     "TYPEBOX_FILE_SCHEMA_SYMBOL"} \cup EXCLUDED_PROPERTIES

IsBinaryString(out) ==
    /\ Has(out, "type") /\ out.type = "string"
    /\ Has(out, "format") /\ out.format = "binary"

CleanFileNode(marker, out) ==
    /\ (DOMAIN out) \cap MarkerAndHelperKeys = {}
    /\ IF marker.type = "array"
       THEN Has(out, "type") /\ out.type = "array"
            /\ Has(out, "items") /\ IsBinaryString(out.items)
       ELSE IsBinaryString(out)

RECURSIVE FileNodesClean(_, _)
FileNodesClean(node, out) ==
    IF ~IsDeclared(node) THEN CleanFileNode(node, out)
    ELSE IF node.kind = "object"
    THEN \A f \in DOMAIN node.fields :
            ContainsForeign(node.fields[f]) =>
               /\ Has(NodeOf(out), "properties")
               /\ Has(NodeOf(out).properties, f)
               /\ FileNodesClean(node.fields[f], NodeOf(out).properties[f])
    ELSE IF node.kind = "array"
    THEN ContainsForeign(node.each) =>
            /\ Has(NodeOf(out), "items")
            /\ FileNodesClean(node.each, NodeOf(out).items)
    ELSE TRUE

\* C4: for every schema with a file helper node at some property path, used
\* as a request body, response or parameter schema under any validator
\* setting (vinejs, zod, typebox, none) with the library at hand, the schema
\* that reaches the document has at the same path a node {type: string,
\* format: binary} (or the array of such for multiple files) with neither a
\* marker key nor a helper key.
C4_FileMarkersCleaned ==
    (spc = "done" /\ lib = "ok" /\ HasShape(declared))
        => FileNodesClean(declared, EmittedSchema)

-----------------------------------------------------------------------------
(* Properties of a generation pass over malformed routes and handlers      *)

\* the pass, step by step, returns what RouteParser.generateSpec returns
PassIsGenerateSpec ==
    pc = "done" => paths = RouteParserGenerateSpec(SWAGGER_METADATA, config, router)

\* a router entry whose extraction, filtering, handler resolution or
\* operation building throws
Malformed(entry) ==
    \/ entry = Null
    \/ "pattern" \notin DOMAIN entry
    \/ entry.handler.shape = "importTuple" /\ entry.handler.loads = "throws"

RemoveAt(seq, k) == SubSeq(seq, 1, k - 1) \o SubSeq(seq, k + 1, Len(seq))

ContainsPaths(ps, ref) ==
    \A p \in DOMAIN ref :
        /\ p \in DOMAIN ps
        /\ \A m \in DOMAIN ref[p] : m \in DOMAIN ps[p] /\ ps[p][m] = ref[p][m]

\* C12: for every route list with exactly one malformed route, the paths map
\* RouteParser.generateSpec returns holds, for every other documented route,
\* the operation it holds when the malformed route is taken out of the list.
C12_MalformedRouteIsolated ==
    (pc = "done" /\ router.available /\ router.format = "root") =>
        \A k \in 1..Len(router.entries) :
            (/\ Malformed(router.entries[k])
             /\ \A j \in 1..Len(router.entries) : j # k => ~Malformed(router.entries[j]))
            => ContainsPaths(paths,
                   RouteParserGenerateSpec(SWAGGER_METADATA, config,
                       [router EXCEPT !.entries = RemoveAt(router.entries, k)]))

\* the registry fragment of (type, member)
FragmentOf(class, member) == SWAGGER_METADATA[getMetadataKey(class, member)]

\* no route processed after position i writes the same (path, method)
NotOverwritten(i) ==
    \A j \in ProcessedRoutes :
        j > i => \/ RouteThrows(filteredRoutes[j])
                 \/ PathKey(filteredRoutes[j]) # PathKey(filteredRoutes[i])
                 \/ filteredRoutes[j].method # filteredRoutes[i].method

\* a route whose handler is [loader, methodName] with a loader that resolves
\* to a module whose default export is a controller class
LoadsDefaultExport(route) ==
    /\ route.controllerClass = "undefined"
    /\ route.importFunction.defined
    /\ route.importFunction.loads = "default"

\* C13: a route whose handler is the tuple [loader, methodName], the loader
\* an async function giving a module whose default export is a controller
\* class, is documented with the fragment registered for (that class,
\* methodName): once the route was processed, its loader was invoked and the
\* operation under its (path, method) has the fragment's summary,
\* description and tags.
C13_ImportTupleDocumented ==
    pc \in {"loop", "done"} =>
        \A i \in ProcessedRoutes :
            LET route == filteredRoutes[i]
            IN  (/\ LoadsDefaultExport(route)
                 /\ ~RouteThrows(route)
                 /\ getMetadataKey(route.importFunction.class, route.methodName)
                       \in DOMAIN SWAGGER_METADATA)
                => /\ i \in imported
                   /\ PathKey(route) \in DOMAIN paths
                   /\ toLowerCase(route.method) \in DOMAIN paths[PathKey(route)]
                   /\ NotOverwritten(i) =>
                         LET op == paths[PathKey(route)][toLowerCase(route.method)]
                             f == FragmentOf(route.importFunction.class, route.methodName)
                         IN  /\ op.summary = FieldOr(f, "summary", "")
                             /\ op.description = FieldOr(f, "description", "")
                             /\ op.tags = FieldOr(f, "tags", <<>>)

\* C13 witness: the pass is over, the route with the import tuple is in
\* paths with the summary registered for PostsController.index.
C13_Witness ==
    /\ pc = "done"
    /\ \E i \in 1..Len(filteredRoutes) :
          /\ LoadsDefaultExport(filteredRoutes[i])
          /\ i \in imported
          /\ PathKey(filteredRoutes[i]) \in DOMAIN paths
          /\ "head" \in DOMAIN paths[PathKey(filteredRoutes[i])]
          /\ paths[PathKey(filteredRoutes[i])]["head"].summary = SwaggerTest.summary

\* resolving the route's handler throws, or the handler has no supported shape
ResolutionFails(route) ==
    \/ route.controllerClass = "undefined" /\ route.importFunction.defined
       /\ route.importFunction.loads = "throws"
    \/ route.controllerClass = "undefined" /\ ~route.importFunction.defined
       /\ HandlerTarget(route)[1] = "none"

\* C14: a route whose handler resolution throws (the loader rejects, the
\* dynamic import and the container lookup fail) or whose handler has an
\* unsupported shape is treated as a route without metadata: processing it
\* leaves paths as it was and the pass goes on to the next route; no pass
\* ends otherwise than by returning its paths.
C14_FailedResolutionSkipsRoute ==
    [][(pc = "loop" /\ routeIdx <= Len(filteredRoutes)
           /\ ResolutionFails(filteredRoutes[routeIdx]))
        => (paths' = paths /\ pc' = "loop" /\ routeIdx' = routeIdx + 1)]_vars

\* C14 witness: a pass that went over a route with a rejecting loader and
\* documented another route.
C14_Witness ==
    /\ pc = "done"
    /\ paths # EmptyObject
    /\ \E i \in 1..Len(filteredRoutes) :
          /\ ResolutionFails(filteredRoutes[i])
          /\ filteredRoutes[i].importFunction.defined

\* the operation the pass left under the (path, method) of a route
OperationOf(route) == paths[PathKey(route)][toLowerCase(route.method)]

\* route i was processed, has a registry entry, is in paths, and no later
\* route replaced it
Documented(i) ==
    /\ i \in ProcessedRoutes
    /\ ~RouteThrows(filteredRoutes[i])
    /\ HasRegistryEntry(filteredRoutes[i])
    /\ PathKey(filteredRoutes[i]) \in DOMAIN paths
    /\ toLowerCase(filteredRoutes[i].method) \in DOMAIN paths[PathKey(filteredRoutes[i])]
    /\ NotOverwritten(i)

\* a name with every "." replaced by "_" and every other character kept
DotsToUnderscores(name) ==
    Join([k \in 1..Len(name) |-> IF name[k] = "." THEN "_" ELSE name[k]])

\* C17: the operationId of a named route is its name with every "." replaced
\* by "_" and nothing else changed, whatever the route's method and path.
C17_NamedOperationId ==
    pc \in {"loop", "done"} =>
        \A i \in 1..Len(filteredRoutes) :
            (Documented(i) /\ filteredRoutes[i].name # <<>>)
                => OperationOf(filteredRoutes[i]).operationId
                      = DotsToUnderscores(filteredRoutes[i].name)

\* C17 witness: the route named "u.s" is documented under two methods, both
\* with the operationId "u_s".
C17_Witness ==
    /\ pc = "done"
    /\ Join(convertRoutePattern(P_user)) \in DOMAIN paths
    /\ {"get", "head"} \subseteq DOMAIN paths[Join(convertRoutePattern(P_user))]
    /\ \A m \in {"get", "head"} :
          paths[Join(convertRoutePattern(P_user))][m].operationId = "u_s"

\* an unnamed GET route on the pattern with one parameter, /u/:i
UnnamedParamGet(route) ==
    route.name = <<>> /\ route.method = "GET" /\ route.pattern = P_user

\* C18 (as the code has it): the operationId of an unnamed route is built
\* from the raw pattern: the method in lower case, "_", and the pattern with
\* its leading "/" dropped, every other "/" turned into "_" and the
\* characters "{", "}" and ":" removed. GET /u/:i gets "get_u_i": the
\* parameter name without braces.
C18_UnnamedOperationId ==
    pc \in {"loop", "done"} =>
        \A i \in 1..Len(filteredRoutes) :
            (Documented(i) /\ UnnamedParamGet(filteredRoutes[i]))
                => OperationOf(filteredRoutes[i]).operationId = "get_u_i"

\* C18 as stated: GET /u/:i gets the operationId "get_u_{i}", the id built
\* from the converted path.
C18_Original ==
    pc \in {"loop", "done"} =>
        \A i \in 1..Len(filteredRoutes) :
            (Documented(i) /\ UnnamedParamGet(filteredRoutes[i]))
                => OperationOf(filteredRoutes[i]).operationId = "get_u_{i}"

\* C18 witness: the unnamed GET /u/:i is documented under /u/{i}.
C18_Witness ==
    /\ pc = "done"
    /\ \E i \in 1..Len(filteredRoutes) :
          /\ Documented(i)
          /\ UnnamedParamGet(filteredRoutes[i])
          /\ OperationOf(filteredRoutes[i]).operationId = "get_u_i"

-----------------------------------------------------------------------------
(* Properties of the request body envelope                                 *)

\* the request body was declared with an explicit contentType
ExplicitContentType(options) ==
    options.kind = "object" /\ "contentType" \in DOMAIN options

\* the normalized schema of the declared request body
NormalizedSchema ==
    processSchemaForFiles(
        convertToJsonSchema(SchemaInput(declared, validator), validator, lib))

\* C15: a request body declared with an explicit contentType c has the key c
\* in its content map, wrapping the normalized schema, whatever the schema
\* contains; for multipart/form-data and application/x-www-form-urlencoded,
\* c is the only key.
C15_ExplicitContentTypeKept ==
    (spc = "done" /\ usage = "requestBody" /\ ExplicitContentType(bodyOptions)) =>
        /\ bodyOptions.contentType \in DOMAIN converted.content
        /\ converted.content[bodyOptions.contentType].schema = NormalizedSchema
        /\ bodyOptions.contentType # "application/json"
              => DOMAIN converted.content = {bodyOptions.contentType}

\* a file-upload node (string with format binary) at any depth of a schema:
\* the node itself, a property, or the items of an array
RECURSIVE ContainsFileNode(_)
ContainsFileNode(schema) ==
    \/ Has(schema, "type") /\ schema.type = "string"
       /\ Has(schema, "format") /\ schema.format = "binary"
    \/ Has(schema, "properties")
       /\ \E key \in DOMAIN schema.properties :
             ContainsFileNode(schema.properties[key])
    \/ Has(schema, "items") /\ ContainsFileNode(schema.items)

\* C16: a request body declared without a contentType has exactly the key
\* multipart/form-data when its normalized schema has a file-upload node at
\* any depth (a top-level property, a property of a nested object, the items
\* of an array), and exactly the keys application/json and
\* application/x-www-form-urlencoded, both wrapping the same schema, when it
\* has none.
C16_FileDetectionAtAnyDepth ==
    (spc = "done" /\ usage = "requestBody" /\ ~ExplicitContentType(bodyOptions)) =>
        IF ContainsFileNode(NormalizedSchema)
        THEN DOMAIN converted.content = {"multipart/form-data"}
        ELSE /\ DOMAIN converted.content
                   = {"application/json", "application/x-www-form-urlencoded"}
             /\ converted.content["application/json"].schema
                   = converted.content["application/x-www-form-urlencoded"].schema

-----------------------------------------------------------------------------
(* component_parser.ts and open_swagger_service.ts                         *)

\* The application's schema directory: what an include path leads to.
\* "missing": the path does not exist; "unreadable": statSync throws;
\* "broken": importing the file throws; otherwise the schemas the file exports.
SchemaFiles(includePath) ==
    CASE includePath = "schemas/user" ->
            [UserSchema |-> [type |-> "object"]]
      [] includePath = "schemas/post" ->
            [PostSchema |-> [type |-> "object"], UserSchema |-> [type |-> "string"]]
      [] OTHER -> EmptyObject

RECURSIVE parseIncludes(_, _)
parseIncludes(include, schemas) ==
    IF include = <<>> THEN schemas
    ELSE IF Head(include) = "unreadable" THEN EmptyObject
    ELSE IF Head(include) \in {"missing", "broken"}
    THEN parseIncludes(Tail(include), schemas)
    ELSE parseIncludes(Tail(include), Spread(schemas, SchemaFiles(Head(include))))

parseComponents(components) ==
    IF ~Has(components, "include") \/ components.include = <<>> THEN EmptyObject
    ELSE parseIncludes(components.include, EmptyObject)

\* spec.components?.<category>
ComponentsOf(document) ==
    IF Has(document, "components") THEN document.components ELSE EmptyObject

CategoryOf(components, category) ==
    IF Has(components, category) THEN components[category] ELSE EmptyObject

\* Variant: the skeleton has no paths map.
Skeleton_noPaths(cfg) ==
    LET s0 == [openapi |-> "3.0.3", info |-> cfg.info]
        s1 == IF Has(cfg, "servers") THEN MapSet(s0, "servers", cfg.servers) ELSE s0
        s2 == IF Has(cfg, "securitySchemes")
              THEN MapSet(s1, "components",
                          MapSet(ComponentsOf(s1), "securitySchemes", cfg.securitySchemes))
              ELSE s1
        s3 == IF Has(cfg, "security") THEN MapSet(s2, "security", cfg.security) ELSE s2
    IN  IF Has(cfg, "tags") THEN MapSet(s3, "tags", cfg.tags) ELSE s3

\* generateSpec up to the component parser
Skeleton(cfg) ==
    LET s0 == [openapi |-> "3.0.3", info |-> cfg.info, paths |-> EmptyObject]
        s1 == IF Has(cfg, "servers") THEN MapSet(s0, "servers", cfg.servers) ELSE s0
        s2 == IF Has(cfg, "securitySchemes")
              THEN MapSet(s1, "components",
                          MapSet(ComponentsOf(s1), "securitySchemes", cfg.securitySchemes))
              ELSE s1
        s3 == IF Has(cfg, "security") THEN MapSet(s2, "security", cfg.security) ELSE s2
    IN  IF Has(cfg, "tags") THEN MapSet(s3, "tags", cfg.tags) ELSE s3

WithComponentSchemas(document, componentSchemas) ==
    IF DOMAIN componentSchemas = {} THEN document
    ELSE MapSet(document, "components",
                MapSet(ComponentsOf(document), "schemas",
                       Spread(CategoryOf(ComponentsOf(document), "schemas"),
                              componentSchemas)))

\* Variant: path items are merged method by method.
mergeSpecs_deepPaths(base, override) ==
    LET m1 == IF Has(override, "paths")
              THEN MapSet(base, "paths",
                          [p \in DOMAIN CategoryOf(base, "paths") \cup DOMAIN override.paths |->
                              Spread(CategoryOf(CategoryOf(base, "paths"), p),
                                     CategoryOf(override.paths, p))])
              ELSE base
        m2 == IF Has(override, "components")
              THEN MapSet(m1, "components",
                      Spread(ComponentsOf(m1),
                             [schemas |->
                                  Spread(CategoryOf(ComponentsOf(m1), "schemas"),
                                         CategoryOf(override.components, "schemas")),
                              securitySchemes |->
                                  Spread(CategoryOf(ComponentsOf(m1), "securitySchemes"),
                                         CategoryOf(override.components,
                                                    "securitySchemes"))]))
              ELSE m1
    IN  Spread(m2, Restrict(override, DOMAIN override \ {"paths", "components"}))

mergeSpecs(base, override) ==
    LET m1 == IF Has(override, "paths")
              THEN MapSet(base, "paths",
                          Spread(IF Has(base, "paths") THEN base.paths ELSE EmptyObject,
                                 override.paths))
              ELSE base
        m2 == IF Has(override, "components")
              THEN MapSet(m1, "components",
                      Spread(ComponentsOf(m1),
                             [schemas |->
                                  Spread(CategoryOf(ComponentsOf(m1), "schemas"),
                                         CategoryOf(override.components, "schemas")),
                              securitySchemes |->
                                  Spread(CategoryOf(ComponentsOf(m1), "securitySchemes"),
                                         CategoryOf(override.components,
                                                    "securitySchemes"))]))
              ELSE m1
    IN  Spread(m2, Restrict(override, DOMAIN override \ {"paths", "components"}))

\* the merge of config.customSpec, when there is one
WithCustomSpec(cfg, document) ==
    IF Has(cfg, "customSpec") THEN mergeSpecs(document, cfg.customSpec) ELSE document

\* config.routes?.autoScan !== false
AutoScan(routesConfig) ==
    ~(Has(routesConfig, "autoScan") /\ routesConfig.autoScan = FALSE)

-----------------------------------------------------------------------------
(* OpenSwaggerService.generateSpec, one step per await point               *)

\* the synchronous part up to the first await
ServiceStart ==
    /\ svc = "start"
    /\ spec' = Skeleton(service)
    /\ svc' = IF Has(service, "components") THEN "components" ELSE "routes"
    /\ UNCHANGED <<service, generated>>
    /\ UNCHANGED <<regVars, genVars, schVars, mwVars, passVars>>

\* await this.componentParser.parseComponents(); the parser catches what its
\* files throw and resolves to the schemas it could read
ComponentsParsed ==
    /\ svc = "components"
    /\ spec' = WithComponentSchemas(spec, parseComponents(service.components))
    /\ svc' = "routes"
    /\ UNCHANGED <<service, generated>>
    /\ UNCHANGED <<regVars, genVars, schVars, mwVars, passVars>>

\* await this.routeParser.generateSpec(), the merge of its paths, the custom
\* overlay and the return
RoutesScanned ==
    /\ svc = "routes"
    /\ AutoScan(config)
    /\ LET autoSpec == [paths |-> RouteParserGenerateSpec(SWAGGER_METADATA, config, router)]
       IN  /\ generated' = mergeSpecs(spec, autoSpec)
           /\ spec' = WithCustomSpec(service, mergeSpecs(spec, autoSpec))
    /\ svc' = "done"
    /\ UNCHANGED service
    /\ UNCHANGED <<regVars, genVars, schVars, mwVars, passVars>>

\* routes.autoScan is false: the custom overlay and the return
ScanSkipped ==
    /\ svc = "routes"
    /\ ~AutoScan(config)
    /\ generated' = spec
    /\ spec' = WithCustomSpec(service, spec)
    /\ svc' = "done"
    /\ UNCHANGED service
    /\ UNCHANGED <<regVars, genVars, schVars, mwVars, passVars>>

-----------------------------------------------------------------------------
(* Inputs of OpenSwaggerService.generateSpec                               *)

ConfiguredInfo == [title |-> "Test API", version |-> "1.0.0"]

BearerScheme == [type |-> "http", scheme |-> "bearer"]

SecurityChoices ==
    { EmptyObject,
      [servers |-> <<[url |-> "http://localhost:3333"]>>, tags |-> <<[name |-> "Users"]>>],
      [securitySchemes |-> [bearerAuth |-> BearerScheme],
       security |-> <<[bearerAuth |-> <<>>]>>] }

ComponentsChoices ==
    { EmptyObject,
      [components |-> [include |-> <<>>]],
      [components |-> [include |-> <<"missing", "schemas/user">>]],
      [components |-> [include |-> <<"schemas/post", "broken", "schemas/user">>]],
      [components |-> [include |-> <<"schemas/user", "unreadable">>]] }

CustomOperation == [summary |-> "Custom endpoint"]

CustomSpecChoices ==
    { EmptyObject,
      [customSpec |-> [paths |-> [c \in {"/custom"} |-> [get |-> CustomOperation]]]],
      [customSpec |->
          [paths |-> [c \in {"/u"} |-> [post |-> CustomOperation]],
           components |-> [schemas |-> [UserSchema |-> [type |-> "number"]],
                           responses |-> [NotFound |-> [description |-> "Not found"]]],
           tags |-> <<[name |-> "Custom"]>>]],
      [customSpec |->
          [openapi |-> "3.1.0",
           info |-> [title |-> "Custom API", version |-> "2.0.0"],
           components |-> [securitySchemes |-> [bearerAuth |-> [type |-> "apiKey"]]]]] }

ServiceConfigs ==
    {Spread(Spread(Spread([info |-> ConfiguredInfo], a), b), c) :
        a \in SecurityChoices, b \in ComponentsChoices, c \in CustomSpecChoices}

\* the route GET /u handled by UsersController.index
UsersIndexEntry ==
    [pattern |-> P_users, method |-> "GET", name |-> <<>>,
     handler |-> [shape |-> "classTuple", class |-> "T1", methodName |-> "index"]]

ServiceRouters ==
    {[available |-> FALSE]}
        \cup {[available |-> TRUE, format |-> "root", entries |-> l] :
                l \in {<<>>} \cup {<<x>> : x \in RouterEntries}
                           \cup {<<x, UsersIndexEntry>> : x \in RouterEntries}}

ServiceRouteConfigs ==
    {EmptyObject, [autoScan |-> FALSE], [autoScan |-> TRUE, exclude |-> <<P_posts>>]}

InitService ==
    /\ decorated = {<<"T1", "index">>, <<"T3", "index">>}
    /\ SWAGGER_METADATA = RegistryAfter(decorated)
    /\ apps = Cardinality(decorated)
    /\ lastApp = NoApp
    /\ respLog = EmptyObject
    /\ paramLog = EmptyObject
    /\ config \in ServiceRouteConfigs
    /\ router \in ServiceRouters
    /\ routes = <<>>
    /\ filteredRoutes = <<>>
    /\ routeIdx = 0
    /\ paths = EmptyObject
    /\ imported = {}
    /\ pc = "idle"
    /\ SchemaIdle
    /\ MiddlewareIdle
    /\ PassesIdle
    /\ service \in ServiceConfigs
    /\ spec = EmptyObject
    /\ generated = EmptyObject
    /\ svc = "start"

NextService ==
    \/ ServiceStart
    \/ ComponentsParsed
    \/ RoutesScanned
    \/ ScanSkipped

SpecService == InitService /\ [][NextService]_vars

-----------------------------------------------------------------------------
(* Properties of the generated document                                    *)

CustomSpecOf == IF Has(service, "customSpec") THEN service.customSpec ELSE EmptyObject

\* route scanning fails as a whole: no router, or filtering throws
ScanFails ==
    \/ ~router.available
    \/ filterRoutesThrows(config, extractRoutes(router))

\* the document has a paths map, and none of its paths is auto-generated
\* when route scanning failed as a whole
PathsMapPresent ==
    /\ Has(spec, "paths")
    /\ (AutoScan(config) /\ ScanFails)
          => spec.paths = CategoryOf(CustomSpecOf, "paths")

\* generateSpec is at one of its await points, each of which has a next step
\* whatever the awaited call met, or it has returned
StepOrReturned ==
    \/ svc \in {"start", "routes", "done"}
    \/ svc = "components" /\ Has(service, "components")

\* C11 (as the code has it): generateSpec always goes on to return a
\* document, whichever of router lookup, route extraction, handler
\* resolution or component parsing fails. The document has a paths map
\* (without auto-generated paths when route scanning fails as a whole), and
\* it has openapi "3.0.3" and the configured info unless the custom overlay
\* sets these keys, in which case it has the overlay's values.
C11_GenerateSpecCompletes ==
    /\ StepOrReturned
    /\ svc = "done" =>
          /\ PathsMapPresent
          /\ spec.openapi = IF Has(CustomSpecOf, "openapi")
                            THEN CustomSpecOf.openapi ELSE "3.0.3"
          /\ spec.info = IF Has(CustomSpecOf, "info")
                         THEN CustomSpecOf.info ELSE service.info

\* C11 as stated: the returned document has openapi "3.0.3", the configured
\* info and a paths map, whatever the configuration holds.
C11_Original ==
    svc = "done" =>
        /\ PathsMapPresent
        /\ spec.openapi = "3.0.3"
        /\ spec.info = service.info

\* C11 witness: the router is unavailable and a schema path cannot be read;
\* the document returned is the minimal one.
C11_Witness ==
    /\ svc = "done"
    /\ AutoScan(config) /\ ~router.available
    /\ Has(service, "components") /\ service.components.include # <<>>
    /\ parseComponents(service.components) = EmptyObject
    /\ spec = [openapi |-> "3.0.3", info |-> ConfiguredInfo, paths |-> EmptyObject]

\* every entry of every category of `part` is in `whole`, with the value
\* `overlay` has for it when it has one
EntriesKept(whole, part, overlay) ==
    \A c \in DOMAIN part :
        \A e \in DOMAIN part[c] :
            /\ Has(whole, c)
            /\ Has(whole[c], e)
            /\ whole[c][e] = IF Has(overlay, c) /\ Has(overlay[c], e)
                             THEN overlay[c][e] ELSE part[c][e]

\* C19: after the custom overlay is merged, paths is the key union of the
\* generated paths and customSpec.paths; components has every entry of the
\* base components and every entry of customSpec.components, with the
\* overlay's value on equal keys; every other top-level key of customSpec
\* has exactly the overlay's value.
C19_OverlayMerged ==
    (svc = "done" /\ Has(service, "customSpec")) =>
        LET custom == service.customSpec
        IN  /\ DOMAIN spec.paths
                  = DOMAIN generated.paths \cup DOMAIN CategoryOf(custom, "paths")
            /\ EntriesKept(ComponentsOf(spec), ComponentsOf(generated),
                           ComponentsOf(custom))
            /\ EntriesKept(ComponentsOf(spec), ComponentsOf(custom),
                           ComponentsOf(custom))
            /\ \A k \in DOMAIN custom \ {"paths", "components"} :
                  Has(spec, k) /\ spec[k] = custom[k]

-----------------------------------------------------------------------------
(* middleware/swagger_middleware.ts                                        *)
(* Header values and credentials are sequences of characters; decoded      *)
(* credentials are sequences of bytes.                                     *)

Base64Alphabet ==
    << "A", "B", "C", "D", "E", "F", "G", "H", "I", "J", "K", "L", "M", "N", "O", "P",
       "Q", "R", "S", "T", "U", "V", "W", "X", "Y", "Z", "a", "b", "c", "d", "e", "f",
       "g", "h", "i", "j", "k", "l", "m", "n", "o", "p", "q", "r", "s", "t", "u", "v",
       "w", "x", "y", "z", "0", "1", "2", "3", "4", "5", "6", "7", "8", "9", "+", "/" >>

Base64Index(c) == (CHOOSE i \in 1..64 : Base64Alphabet[i] = c) - 1

\* the bytes of the characters credentials are written with
CharCode(c) ==
    CASE c = ":" -> 58
      [] c = "a" -> 97
      [] c = "c" -> 99
      [] c = "s" -> 115
      [] c = "x" -> 120

Bytes(chars) == [i \in 1..Len(chars) |-> CharCode(chars[i])]

\* base64 of a byte sequence, with padding
RECURSIVE Base64Encode(_)
Base64Encode(bytes) ==
    IF bytes = <<>> THEN <<>>
    ELSE IF Len(bytes) = 1
    THEN LET n == bytes[1] * 16
         IN  <<Base64Alphabet[(n \div 64) + 1], Base64Alphabet[(n % 64) + 1], "=", "=">>
    ELSE IF Len(bytes) = 2
    THEN LET n == (bytes[1] * 256 + bytes[2]) * 4
         IN  <<Base64Alphabet[(n \div 4096) + 1], Base64Alphabet[((n \div 64) % 64) + 1],
               Base64Alphabet[(n % 64) + 1], "=">>
    ELSE LET n == bytes[1] * 65536 + bytes[2] * 256 + bytes[3]
         IN  <<Base64Alphabet[(n \div 262144) + 1],
               Base64Alphabet[((n \div 4096) % 64) + 1],
               Base64Alphabet[((n \div 64) % 64) + 1],
               Base64Alphabet[(n % 64) + 1]>>
                 \o Base64Encode(SubSeq(bytes, 4, Len(bytes)))

\* the characters before the first "="
BeforePadding(chars) ==
    IF \E i \in 1..Len(chars) : chars[i] = "="
    THEN SubSeq(chars, 1, (CHOOSE i \in 1..Len(chars) :
                              chars[i] = "=" /\ \A j \in 1..(i - 1) : chars[j] # "=") - 1)
    ELSE chars

RECURSIVE DecodeGroups(_)
DecodeGroups(chars) ==
    IF Len(chars) < 2 THEN <<>>
    ELSE IF Len(chars) = 2
    THEN <<(Base64Index(chars[1]) * 64 + Base64Index(chars[2])) \div 16>>
    ELSE IF Len(chars) = 3
    THEN LET n == (Base64Index(chars[1]) * 4096 + Base64Index(chars[2]) * 64
                      + Base64Index(chars[3])) \div 4
         IN  <<n \div 256, n % 256>>
    ELSE LET n == Base64Index(chars[1]) * 262144 + Base64Index(chars[2]) * 4096
                     + Base64Index(chars[3]) * 64 + Base64Index(chars[4])
         IN  <<n \div 65536, (n \div 256) % 256, n % 256>>
                 \o DecodeGroups(SubSeq(chars, 5, Len(chars)))

\* Buffer.from(text, 'base64'): decoding stops at the first "=", characters
\* outside the alphabet are skipped, padding is not required
BufferFromBase64(chars) ==
    LET InAlphabet(c) == \E i \in 1..64 : Base64Alphabet[i] = c
    IN  DecodeGroups(SelectSeq(BeforePadding(chars), InAlphabet))

BasicPrefix == <<"B", "a", "s", "i", "c", " ">>

startsWith(chars, prefix) ==
    Len(chars) >= Len(prefix) /\ SubSeq(chars, 1, Len(prefix)) = prefix

\* credentials.indexOf(':'), 1-based; 0 when there is none
IndexOfColon(bytes) ==
    IF \E i \in 1..Len(bytes) : bytes[i] = 58
    THEN CHOOSE i \in 1..Len(bytes) : bytes[i] = 58 /\ \A j \in 1..(i - 1) : bytes[j] # 58
    ELSE 0

\* Variant: the credentials are split at the last colon.
validateBasicAuth_lastColon(auth, req) ==
    IF ~Has(req.headers, "authorization") THEN FALSE
    ELSE IF ~startsWith(req.headers.authorization, BasicPrefix) THEN FALSE
    ELSE LET authHeader == req.headers.authorization
             credentials == BufferFromBase64(SubSeq(authHeader, 7, Len(authHeader)))
             colonIndex == IF \E i \in 1..Len(credentials) : credentials[i] = 58
                           THEN CHOOSE i \in 1..Len(credentials) :
                                   /\ credentials[i] = 58
                                   /\ \A j \in (i + 1)..Len(credentials) : credentials[j] # 58
                           ELSE 0
         IN  IF colonIndex = 0 THEN FALSE
             ELSE /\ SubSeq(credentials, 1, colonIndex - 1) = Bytes(auth.username)
                  /\ SubSeq(credentials, colonIndex + 1, Len(credentials))
                        = Bytes(auth.password)

validateBasicAuth(auth, req) ==
    IF ~Has(req.headers, "authorization") THEN FALSE
    ELSE IF ~startsWith(req.headers.authorization, BasicPrefix) THEN FALSE
    ELSE LET authHeader == req.headers.authorization
             credentials == BufferFromBase64(SubSeq(authHeader, 7, Len(authHeader)))
             colonIndex == IndexOfColon(credentials)
         IN  IF colonIndex = 0 THEN FALSE
             ELSE /\ SubSeq(credentials, 1, colonIndex - 1) = Bytes(auth.username)
                  /\ SubSeq(credentials, colonIndex + 1, Len(credentials))
                        = Bytes(auth.password)

\* this.config.basicAuth?.enabled
BasicAuthEnabled(auth) == auth # Undefined /\ auth.enabled

DefaultRealm == <<"A", "P", "I", " ", "D", "o", "c", "u", "m", "e", "n", "t", "a", "t", "i",
                  "o", "n">>

\* `Basic realm="${realm}"`, as its three parts
Challenge(auth) ==
    <<"Basic realm=\"",
      IF Has(auth, "realm") /\ auth.realm # <<>> THEN auth.realm ELSE DefaultRealm,
      "\"">>

CorsAndSecurityHeaders ==
    [h \in {"Access-Control-Allow-Origin", "Access-Control-Allow-Methods",
            "Access-Control-Allow-Headers", "X-Content-Type-Options",
            "X-Frame-Options", "X-XSS-Protection"} |->
        CASE h = "Access-Control-Allow-Origin" -> "*"
          [] h = "Access-Control-Allow-Methods" -> "GET, OPTIONS"
          [] h = "Access-Control-Allow-Headers" -> "Content-Type, Authorization"
          [] h = "X-Content-Type-Options" -> "nosniff"
          [] h = "X-Frame-Options" -> "DENY"
          [] h = "X-XSS-Protection" -> "1; mode=block"]

-----------------------------------------------------------------------------
(* SwaggerMiddleware.handle: its three ways through                        *)

Handled ==
    /\ mw' = "done"
    /\ UNCHANGED <<basicAuth, request>>
    /\ UNCHANGED <<regVars, genVars, schVars, svcVars, passVars>>

\* Variant: the CORS and security headers are set before the credential
\* check.
Reject_headersFirst ==
    /\ mw = "start"
    /\ BasicAuthEnabled(basicAuth)
    /\ ~validateBasicAuth(basicAuth, request)
    /\ response' = [status |-> 401,
                    headers |-> MapSet(Spread(response.headers, CorsAndSecurityHeaders),
                                       "WWW-Authenticate", Challenge(basicAuth)),
                    body |-> "Unauthorized"]
    /\ UNCHANGED nextCalled
    /\ Handled

\* the credential check fails: 401
Reject ==
    /\ mw = "start"
    /\ BasicAuthEnabled(basicAuth)
    /\ ~validateBasicAuth(basicAuth, request)
    /\ response' = [status |-> 401,
                    headers |-> MapSet(response.headers, "WWW-Authenticate",
                                       Challenge(basicAuth)),
                    body |-> "Unauthorized"]
    /\ UNCHANGED nextCalled
    /\ Handled

\* a preflight request: 204
Preflight ==
    /\ mw = "start"
    /\ BasicAuthEnabled(basicAuth) => validateBasicAuth(basicAuth, request)
    /\ request.method = "OPTIONS"
    /\ response' = [response EXCEPT !.status = 204,
                                    !.headers = Spread(@, CorsAndSecurityHeaders)]
    /\ UNCHANGED nextCalled
    /\ Handled

\* await next()
PassThrough ==
    /\ mw = "start"
    /\ BasicAuthEnabled(basicAuth) => validateBasicAuth(basicAuth, request)
    /\ request.method # "OPTIONS"
    /\ response' = [response EXCEPT !.headers = Spread(@, CorsAndSecurityHeaders)]
    /\ nextCalled' = TRUE
    /\ Handled

-----------------------------------------------------------------------------
(* Inputs of SwaggerMiddleware.handle                                      *)

BasicAuthConfigs ==
    { Undefined,
      [enabled |-> FALSE, username |-> <<"a">>, password |-> <<"s">>],
      [enabled |-> TRUE, username |-> <<"a">>, password |-> <<"s">>],
      [enabled |-> TRUE, username |-> <<"a">>, password |-> <<"s">>, realm |-> <<>>],
      [enabled |-> TRUE, username |-> <<"a">>, password |-> <<"s", ":", "c">>,
       realm |-> <<"D", "o", "c", "s">>],
      [enabled |-> TRUE, username |-> <<"a", "x">>, password |-> <<"s", "c">>],
      [enabled |-> TRUE, username |-> <<"a", ":", "s">>, password |-> <<"c">>] }

\* what a client puts before the base64 text
Schemes ==
    { BasicPrefix, <<"b", "a", "s", "i", "c", " ">>, <<"B", "a", "s", "i", "c">>,
      <<"B", "e", "a", "r", "e", "r", " ">> }

CredentialTexts ==
    { <<"a", ":", "s">>, <<"a", ":", "s", ":", "c">>, <<"a", "x", ":", "s", "c">>,
      <<"a", ":", "x">>, <<"x", ":", "s">>, <<"a", "s">>, <<"a", ":">>, <<":", "s">>,
      <<"a", "s", ":", "c">>, <<>> }

\* the base64 text as a client may send it: padded, or without its padding
Encodings(chars) ==
    {Base64Encode(Bytes(chars)), BeforePadding(Base64Encode(Bytes(chars)))}

AuthorizationHeaders ==
    {scheme \o text : scheme \in Schemes,
                      text \in UNION {Encodings(chars) : chars \in CredentialTexts}}

Requests ==
    {[method |-> m, headers |-> h] :
        m \in {"GET", "POST", "OPTIONS"},
        h \in {EmptyObject} \cup {[authorization |-> a] : a \in AuthorizationHeaders}}

InitMiddleware ==
    /\ SWAGGER_METADATA = EmptyObject
    /\ apps = 0
    /\ lastApp = NoApp
    /\ respLog = EmptyObject
    /\ paramLog = EmptyObject
    /\ decorated = {}
    /\ GenIdle
    /\ SchemaIdle
    /\ ServiceIdle
    /\ PassesIdle
    /\ basicAuth \in BasicAuthConfigs
    /\ request \in Requests
    /\ response = [status |-> 200, headers |-> EmptyObject]
    /\ nextCalled = FALSE
    /\ mw = "start"

NextMiddleware ==
    \/ Reject
    \/ Preflight
    \/ PassThrough

SpecMiddleware == InitMiddleware /\ [][NextMiddleware]_vars

-----------------------------------------------------------------------------
(* Properties of the credential check                                      *)

ColonFree(chars) == \A i \in 1..Len(chars) : chars[i] # ":"

\* "<username>:<password>" as configured
ConfiguredCredentials == basicAuth.username \o <<":">> \o basicAuth.password

\* the header is "Basic " followed by the base64 of the configured
\* credentials, the user name being the text before the first colon
ExactHeader ==
    /\ Has(request.headers, "authorization")
    /\ request.headers.authorization
          = BasicPrefix \o Base64Encode(Bytes(ConfiguredCredentials))
    /\ ColonFree(basicAuth.username)

\* the header starts with "Basic " and the rest decodes to the configured
\* credentials
DecodesToConfigured ==
    /\ Has(request.headers, "authorization")
    /\ startsWith(request.headers.authorization, BasicPrefix)
    /\ BufferFromBase64(SubSeq(request.headers.authorization, 7,
                               Len(request.headers.authorization)))
          = Bytes(ConfiguredCredentials)
    /\ ColonFree(basicAuth.username)

\* the 401 answer with its challenge
Unauthorized ==
    /\ response.status = 401
    /\ Has(response.headers, "WWW-Authenticate")
    /\ response.headers["WWW-Authenticate"]
          = <<"Basic realm=\"",
              IF Has(basicAuth, "realm") /\ basicAuth.realm # <<>>
              THEN basicAuth.realm ELSE DefaultRealm,
              "\"">>
    /\ ~nextCalled

\* C20 (as the code has it): with basicAuth.enabled the credential check
\* passes if and only if the Authorization header starts with "Basic " and
\* the rest decodes, as base64 with or without padding, to
\* "<username>:<password>" with the configured user name before the first
\* colon and the configured password after it. When it fails the answer is
\* 401 with the WWW-Authenticate challenge and next is not called. When it
\* passes, or basicAuth is absent or disabled, next is called unless the
\* request is an OPTIONS preflight, which is answered 204 without next.
C20_BasicAuthGate ==
    mw = "done" =>
        LET passes == ~BasicAuthEnabled(basicAuth) \/ DecodesToConfigured
        IN  /\ nextCalled <=> (passes /\ request.method # "OPTIONS")
            /\ ~passes => Unauthorized
            /\ passes => /\ response.status # 401
                         /\ ~Has(response.headers, "WWW-Authenticate")
            /\ (passes /\ request.method = "OPTIONS") => response.status = 204

\* C20 as stated: with basicAuth.enabled next is called if and only if the
\* header is exactly "Basic " and the base64 of the configured credentials,
\* and every other request is answered 401; without basicAuth no request
\* is answered 401.
C20_Original ==
    mw = "done" =>
        IF BasicAuthEnabled(basicAuth)
        THEN /\ nextCalled <=> ExactHeader
             /\ ~ExactHeader => Unauthorized
        ELSE response.status # 401

\* C20 witness: a password with a colon, sent as base64 without its padding,
\* is accepted and next is called.
C20_Witness ==
    /\ mw = "done"
    /\ BasicAuthEnabled(basicAuth)
    /\ ~ColonFree(basicAuth.password)
    /\ DecodesToConfigured
    /\ ~ExactHeader
    /\ nextCalled

-----------------------------------------------------------------------------
(* Generation passes of several services                                   *)
(*                                                                         *)
(* Every OpenSwaggerService has a RouteParser of its own, which holds the  *)
(* configuration it was constructed with.  The router, the metadata        *)
(* registry and the global validator belong to the process.  A pass is one *)
(* call of RouteParser.generateSpec; it gives control away at each await   *)
(* (the router's resolution, each route's generateOperation), where        *)
(* another pass or the construction of a service may run.                  *)

MaxInstances == 2

PassIds == {1, 2}

\* what the services are constructed with: the validator and the routes
\* filter differ from one service to the other
PassConfigs ==
    { [validator |-> "vinejs"],
      [validator |-> "zod", exclude |-> <<P_posts>>],
      [ignoreMethods |-> <<"HEAD">>] }

\* GET /p, handled by PostsController.index
PostsIndexEntry ==
    [pattern |-> P_posts, method |-> "GET", name |-> <<>>,
     handler |-> [shape |-> "classTuple", class |-> "T3", methodName |-> "index"]]

\* the application's router
PassRouters ==
    { [available |-> FALSE],
      [available |-> TRUE, format |-> "root",
       entries |-> <<UsersIndexEntry, PostsIndexEntry>>],
      [available |-> TRUE, format |-> "root",
       entries |-> <<NamedShowEntry, PostsIndexEntry, UsersIndexEntry>>] }

\* Variant: the parser reads the configuration of the service constructed
\* last, as if it were kept where the global validator is.
ParserConfig_latest(is, i) == is[Len(is)].config

\* this.config of the RouteParser of service `i`
ParserConfig(is, i) == is[i].config

\* new OpenSwaggerService(config, app): the parser is made with the
\* configuration, and the configured validator becomes the global one.
Construct ==
    /\ Len(instances) < MaxInstances
    /\ \E cfg \in PassConfigs :
           /\ instances' = Append(instances, [config |-> cfg])
           /\ globalValidator' = IF Has(cfg, "validator") THEN cfg.validator
                                  ELSE "undefined"
    /\ UNCHANGED <<regVars, genVars, schVars, svcVars, mwVars, pass>>

\* generateSpec() is called on the parser of a constructed service; it stops
\* at `await this.app.container.make('router')`
PassCalled ==
    /\ \E p \in PassIds \ DOMAIN pass, i \in 1..Len(instances) :
           pass' = MapSet(pass, p,
                       [instance |-> i, pc |-> "router",
                        filteredRoutes |-> <<>>, routeIdx |-> 0,
                        paths |-> EmptyObject,
                        \* history: the passes in flight and the number of
                        \* services at the time of the call
                        joined |-> {q \in DOMAIN pass : pass[q].pc # "done"},
                        built |-> Len(instances)])
    /\ UNCHANGED <<regVars, genVars, schVars, svcVars, mwVars, globalValidator, instances>>

\* the router is resolved (or not), the routes are extracted and filtered
PassRouterResolved ==
    /\ \E p \in DOMAIN pass :
           /\ pass[p].pc = "router"
           /\ LET cfg == ParserConfig(instances, pass[p].instance)
                  rs == extractRoutes(router)
              IN  pass' =
                      [pass EXCEPT ![p] =
                          IF ~router.available \/ filterRoutesThrows(cfg, rs)
                          THEN [@ EXCEPT !.pc = "done"]
                          ELSE [@ EXCEPT !.pc = "loop", !.routeIdx = 1,
                                         !.filteredRoutes = filterRoutes(cfg, rs)]]
    /\ UNCHANGED <<regVars, genVars, schVars, svcVars, mwVars, globalValidator, instances>>

\* one turn of the loop, up to the end of `await this.generateOperation(route)`
PassRoute ==
    /\ \E p \in DOMAIN pass :
           /\ pass[p].pc = "loop"
           /\ pass[p].routeIdx <= Len(pass[p].filteredRoutes)
           /\ LET route == pass[p].filteredRoutes[pass[p].routeIdx]
                  operation == generateOperation(SWAGGER_METADATA, route)
                  added == IF RouteThrows(route) \/ operation = Null
                           THEN pass[p].paths
                           ELSE AddOperation(pass[p].paths,
                                             Join(convertRoutePattern(route.pattern)),
                                             toLowerCase(route.method), operation)
              IN  /\ pass' = [pass EXCEPT ![p] = [@ EXCEPT !.paths = added,
                                                          !.routeIdx = @ + 1]]
                  /\ SWAGGER_METADATA' =
                         IF RouteThrows(route) THEN SWAGGER_METADATA
                         ELSE RegistryAfterLookup(SWAGGER_METADATA, route)
    /\ UNCHANGED <<apps, lastApp, respLog, paramLog, decorated>>
    /\ UNCHANGED <<genVars, schVars, svcVars, mwVars, globalValidator, instances>>

\* return { paths }
PassReturned ==
    /\ \E p \in DOMAIN pass :
           /\ pass[p].pc = "loop"
           /\ pass[p].routeIdx > Len(pass[p].filteredRoutes)
           /\ pass' = [pass EXCEPT ![p] = [@ EXCEPT !.pc = "done"]]
    /\ UNCHANGED <<regVars, genVars, schVars, svcVars, mwVars, globalValidator, instances>>

InitPasses ==
    /\ decorated = {<<"T1", "index">>, <<"T1", "show">>, <<"T3", "index">>}
    /\ SWAGGER_METADATA = RegistryAfter(decorated)
    /\ apps = Cardinality(decorated)
    /\ lastApp = NoApp
    /\ respLog = EmptyObject
    /\ paramLog = EmptyObject
    /\ config = EmptyObject
    /\ router \in PassRouters
    /\ routes = <<>>
    /\ filteredRoutes = <<>>
    /\ routeIdx = 0
    /\ paths = EmptyObject
    /\ imported = {}
    /\ pc = "idle"
    /\ SchemaIdle
    /\ ServiceIdle
    /\ MiddlewareIdle
    /\ globalValidator = "undefined"
    /\ instances = <<>>
    /\ pass = <<>>

NextPasses ==
    \/ Construct
    \/ PassCalled
    \/ PassRouterResolved
    \/ PassRoute
    \/ PassReturned

SpecPasses == InitPasses /\ [][NextPasses]_vars

-----------------------------------------------------------------------------
(* Properties of handler references                                        *)

\* position of the last '.', 0 when there is none
LastDot(reference) ==
    IF Contains(reference, ".")
    THEN CHOOSE k \in 1..Len(reference) :
            reference[k] = "." /\ \A j \in (k + 1)..Len(reference) : reference[j] # "."
    ELSE 0

\* the text after the last '.', "handle" when there is no '.'
MemberOfReference(reference) ==
    IF LastDot(reference) = 0 THEN "handle"
    ELSE Join(SubSeq(reference, LastDot(reference) + 1, Len(reference)))

\* the controller module named by the text before the member
ModuleOfReference(reference) ==
    IF LastDot(reference) = 0 THEN Join(reference)
    ELSE Join(SubSeq(reference, 1, LastDot(reference) - 1))

\* the route's handler was a string reference
FromReference(route) ==
    /\ route.controllerClass = "undefined"
    /\ ~route.importFunction.defined
    /\ Contains(route.handler, "#")

\* C23: for a handler given as a string reference, directly or as the
\* reference of a {reference, handle} object, the registry is looked up with
\* the text after the last '.' of the reference, and with "handle" when the
\* reference has no '.': a route whose controller has an entry under that
\* member is documented.
C23_MemberFromReference ==
    pc \in {"loop", "done"} =>
        \A i \in ProcessedRoutes :
            LET route == filteredRoutes[i]
                class == ControllerModules(ModuleOfReference(route.handler))
            IN  (/\ FromReference(route)
                 /\ ~RouteThrows(route)
                 /\ class # "none"
                 /\ getMetadataKey(class, MemberOfReference(route.handler))
                       \in DOMAIN SWAGGER_METADATA)
                => /\ PathKey(route) \in DOMAIN paths
                   /\ toLowerCase(route.method) \in DOMAIN paths[PathKey(route)]

-----------------------------------------------------------------------------
(* Properties of include/exclude filtering                                 *)

\* the literal pieces occur in `str` in this order, one after the other
RECURSIVE PiecesInOrder(_, _)
PiecesInOrder(pieces, str) ==
    IF pieces = <<>> THEN TRUE
    ELSE \E k \in 0..(Len(str) - Len(Head(pieces))) :
            /\ SubSeq(str, k + 1, k + Len(Head(pieces))) = Head(pieces)
            /\ PiecesInOrder(Tail(pieces),
                             SubSeq(str, k + Len(Head(pieces)) + 1, Len(str)))

\* a filter pattern with '*' is the unanchored regex with '.*' for each '*';
\* any other pattern matches by substring containment
FilterMatches(routePattern, filterPattern) ==
    IF Contains(filterPattern, "*")
    THEN PiecesInOrder(Split(filterPattern, "*"), routePattern)
    ELSE Includes(routePattern, filterPattern)

Survives(route) ==
    /\ ~("exclude" \in DOMAIN config
           /\ \E i \in 1..Len(config.exclude) :
                 FilterMatches(route.pattern, config.exclude[i]))
    /\ "include" \in DOMAIN config
          => \E i \in 1..Len(config.include) :
                FilterMatches(route.pattern, config.include[i])

\* C24: of the routes that have a pattern, those that survive include/exclude
\* filtering are exactly the routes whose pattern matches no exclude pattern
\* and, when include patterns are configured, matches at least one of them,
\* in their order; a route matching both an exclude and an include pattern
\* is dropped.
C24_IncludeExcludeFiltering ==
    (/\ pc \in {"loop", "done"}
     /\ router.available
     /\ \A i \in 1..Len(routes) : routes[i].pattern # UndefinedPattern)
    => filteredRoutes = SelectSeq(routes, Survives)

\* C24 witness: a route matching both an include and an exclude pattern was
\* dropped while another route was kept.
C24_Witness ==
    /\ pc = "done"
    /\ "include" \in DOMAIN config /\ "exclude" \in DOMAIN config
    /\ filteredRoutes # <<>>
    /\ \E i \in 1..Len(routes) :
          /\ routes[i].pattern # UndefinedPattern
          /\ MatchesAny(routes[i].pattern, config.include)
          /\ MatchesAny(routes[i].pattern, config.exclude)
          /\ \A j \in 1..Len(filteredRoutes) : filteredRoutes[j] # routes[i]

-----------------------------------------------------------------------------
(* Properties of the paths map                                             *)

\* route i was processed and has an operation
Emitted(i) ==
    /\ i \in ProcessedRoutes
    /\ ~RouteThrows(filteredRoutes[i])
    /\ generateOperation(SWAGGER_METADATA, filteredRoutes[i]) # Null

\* routes i and j go to the same (converted path, lower-cased method)
SamePair(i, j) ==
    /\ PathKey(filteredRoutes[i]) = PathKey(filteredRoutes[j])
    /\ toLowerCase(filteredRoutes[i].method) = toLowerCase(filteredRoutes[j].method)

\* C27: the paths map holds one operation per (converted path, lower-cased
\* method): under every pair is the operation of the last processed route
\* that has an operation for it, and every processed route that has an
\* operation has its pair in the map, whatever was written under other
\* methods of the same path later.
C27_LastRouteWins ==
    pc \in {"loop", "done"} =>
        /\ \A i \in 1..Len(filteredRoutes) :
              Emitted(i) =>
                  /\ PathKey(filteredRoutes[i]) \in DOMAIN paths
                  /\ toLowerCase(filteredRoutes[i].method)
                        \in DOMAIN paths[PathKey(filteredRoutes[i])]
                  /\ (\A j \in 1..Len(filteredRoutes) :
                         (Emitted(j) /\ SamePair(i, j)) => j <= i)
                        => OperationOf(filteredRoutes[i])
                              = generateOperation(SWAGGER_METADATA, filteredRoutes[i])
        /\ \A p \in DOMAIN paths : \A m \in DOMAIN paths[p] :
              \E i \in 1..Len(filteredRoutes) :
                  /\ Emitted(i)
                  /\ PathKey(filteredRoutes[i]) = p
                  /\ toLowerCase(filteredRoutes[i].method) = m

\* C27 witness: two routes with different operations went to GET /u/{i}; the
\* later one's operation is there, and the HEAD operation of the same path
\* is still there.
C27_Witness ==
    /\ pc = "done"
    /\ \E i, j \in 1..Len(filteredRoutes) :
          /\ i < j /\ Emitted(i) /\ Emitted(j) /\ SamePair(i, j)
          /\ generateOperation(SWAGGER_METADATA, filteredRoutes[i])
                # generateOperation(SWAGGER_METADATA, filteredRoutes[j])
          /\ OperationOf(filteredRoutes[j])
                = generateOperation(SWAGGER_METADATA, filteredRoutes[j])
          /\ DOMAIN paths[PathKey(filteredRoutes[j])] = {"get", "head"}

\* the (path, method) pairs of the paths map
Pairs ==
    {x \in (DOMAIN paths) \X {"get", "head", "post"} : x[2] \in DOMAIN paths[x[1]]}

\* C28: within one paths map, the operations under two distinct
\* (path, method) pairs have distinct operationIds, whether the ids come from
\* method and path or from route names.
C28_OperationIdsDistinct ==
    pc \in {"loop", "done"} =>
        \A a, b \in Pairs :
            a # b => paths[a[1]][a[2]].operationId # paths[b[1]][b[2]].operationId

-----------------------------------------------------------------------------
(* Properties of the order of the middleware's steps                       *)

\* the response carries every CORS and security header, with its value
HeadersSet ==
    \A h \in DOMAIN CorsAndSecurityHeaders :
        Has(response.headers, h) /\ response.headers[h] = CorsAndSecurityHeaders[h]

\* C29: handle runs the credential check, then sets the CORS and security
\* headers, then handles the preflight, then calls next. A request answered
\* 401, an OPTIONS preflight without valid credentials included, carries
\* none of the CORS or security headers; an OPTIONS request that passes the
\* credential check gets 204 with the headers set and next is not called;
\* and next is called only with the headers set.
C29_StepOrder ==
    mw = "done" =>
        /\ (BasicAuthEnabled(basicAuth) /\ ~validateBasicAuth(basicAuth, request))
              => /\ response.status = 401
                 /\ DOMAIN response.headers \cap DOMAIN CorsAndSecurityHeaders = {}
                 /\ ~nextCalled
        /\ response.status = 401
              => DOMAIN response.headers \cap DOMAIN CorsAndSecurityHeaders = {}
        /\ (request.method = "OPTIONS" /\ response.status # 401)
              => response.status = 204 /\ HeadersSet /\ ~nextCalled
        /\ nextCalled => HeadersSet /\ request.method # "OPTIONS"

\* C29 witness: an OPTIONS preflight without valid credentials was answered
\* 401 with the challenge as its only header.
C29_Witness ==
    /\ mw = "done"
    /\ BasicAuthEnabled(basicAuth)
    /\ request.method = "OPTIONS"
    /\ response.status = 401
    /\ DOMAIN response.headers = {"WWW-Authenticate"}
    /\ ~nextCalled

-----------------------------------------------------------------------------
(* Properties of the overlay's path items                                  *)

\* C30: when customSpec.paths and the generated paths share a path key, the
\* overlay's path item replaces the generated one as a whole, so that
\* generated operations under methods the overlay does not define are gone;
\* generated path keys the overlay does not name keep their path items.
C30_OverlayReplacesPathItem ==
    (svc = "done" /\ Has(CustomSpecOf, "paths")) =>
        /\ \A p \in DOMAIN CustomSpecOf.paths :
              spec.paths[p] = CustomSpecOf.paths[p]
        /\ \A p \in DOMAIN generated.paths \ DOMAIN CustomSpecOf.paths :
              Has(spec.paths, p) /\ spec.paths[p] = generated.paths[p]

\* C30 witness: GET /u was generated, the overlay defines POST /u only, and
\* the document has POST /u only, next to a generated path left as it was.
C30_Witness ==
    /\ svc = "done"
    /\ Has(CustomSpecOf, "paths")
    /\ \E p \in DOMAIN generated.paths \cap DOMAIN CustomSpecOf.paths :
          /\ "get" \in DOMAIN generated.paths[p]
          /\ DOMAIN spec.paths[p] = {"post"}
    /\ \E p \in DOMAIN generated.paths \ DOMAIN CustomSpecOf.paths :
          spec.paths[p] = generated.paths[p]

-----------------------------------------------------------------------------
(* Properties of deferred metadata                                         *)

\* obj[RAW_METADATA_MARKER] === true
IsRawMetadata(x) == RAW_METADATA_MARKER \in DOMAIN x

\* the operations of the paths map, as <<path, method>> pairs
EmittedPairs ==
    {x \in (DOMAIN paths) \X {"get", "head", "post"} : x[2] \in DOMAIN paths[x[1]]}

RawLeft(operation) ==
    \/ \E status \in DOMAIN operation.responses :
           IsRawMetadata(operation.responses[status])
    \/ \E i \in 1..Len(operation.parameters) : IsRawMetadata(operation.parameters[i])
    \/ "requestBody" \in DOMAIN operation /\ IsRawMetadata(operation.requestBody)

\* C21: no operation of the paths map carries a raw placeholder among its
\* responses, among its parameters or as its request body.
C21_NoRawPlaceholderEmitted ==
    \A x \in EmittedPairs : ~RawLeft(paths[x[1]][x[2]])

\* an entry that is neither a raw placeholder nor a promise
AlreadyResolved(x) == ~IsRawMetadata(x) /\ ~IsThenable(x)

\* the already-resolved responses, parameters and request body of `f` are
\* the same entries of `r`
ResolvedEntriesKept(f, r) ==
    /\ "responses" \in DOMAIN f =>
           \A status \in DOMAIN f.responses :
               AlreadyResolved(f.responses[status]) =>
                   /\ status \in DOMAIN r.responses
                   /\ r.responses[status] = f.responses[status]
    /\ "parameters" \in DOMAIN f =>
           /\ Len(r.parameters) = Len(f.parameters)
           /\ \A i \in 1..Len(f.parameters) :
                  AlreadyResolved(f.parameters[i]) => r.parameters[i] = f.parameters[i]
    /\ ("requestBody" \in DOMAIN f /\ AlreadyResolved(f.requestBody)) =>
           r.requestBody = f.requestBody

\* C22: resolving the resolved metadata of a registry entry changes nothing,
\* and resolving an entry leaves its already-resolved responses, parameters
\* and request body as they were.
C22_ResolveIdempotent ==
    \A key \in DOMAIN SWAGGER_METADATA :
        LET f == SWAGGER_METADATA[key]
            r == resolveMetadataPromises(f)
        IN  /\ resolveMetadataPromises(r) = r
            /\ ResolvedEntriesKept(f, r)
            /\ ResolvedEntriesKept(r, resolveMetadataPromises(r))

\* GET /p was emitted from an entry holding a promise beside an
\* already-resolved response: the promise was awaited, the other was kept.
C22_Witness ==
    /\ pc = "done"
    /\ SWAGGER_METADATA = ExtraRegistry
    /\ IsThenable(SWAGGER_METADATA["PostsController.index"].responses["201"])
    /\ Join(P_posts) \in DOMAIN paths
    /\ "get" \in DOMAIN paths[Join(P_posts)]
    /\ paths[Join(P_posts)]["get"].responses["201"] = [description |-> "Created"]
    /\ paths[Join(P_posts)]["get"].responses["204"] = [description |-> "No Content"]

-----------------------------------------------------------------------------
(* Properties of interleaved generation passes                             *)

\* what the pass returns when nothing else runs: the paths map of its
\* parser's configuration over the router and the registry
AloneResult(p) ==
    RouteParserGenerateSpec(SWAGGER_METADATA, instances[pass[p].instance].config, router)

\* C25: a pass that has returned, whatever ran between its awaits (steps of
\* another pass, the construction of another service and its write of the
\* global validator), returned the paths map it returns when run alone.
C25_PassesIndependent ==
    \A p \in DOMAIN pass : pass[p].pc = "done" => pass[p].paths = AloneResult(p)

\* Both passes have returned, the second was called while the first was in
\* flight, they belong to two services with different configurations, and a
\* service constructed after the first call replaced the global validator.
C25_Witness ==
    /\ DOMAIN pass = PassIds
    /\ \A p \in PassIds : pass[p].pc = "done"
    /\ \E p, q \in PassIds :
           /\ p \in pass[q].joined
           /\ pass[p].instance # pass[q].instance
           /\ pass[p].built < Len(instances)
           /\ Has(instances[pass[p].instance].config, "validator")
           /\ globalValidator # instances[pass[p].instance].config.validator
           /\ pass[p].paths # pass[q].paths
           /\ pass[p].paths # EmptyObject

====
